---- MODULE Spec2Model ----
(***************************************************************************)
(* Verification model of the numerical pricing engines of the              *)
(* Derivatives-Pricing-Library: the CRR binomial lattice, the              *)
(* Longstaff-Schwartz Monte Carlo engine, the Monte Carlo barrier pricer   *)
(* and the style checks of the PricingModel entry points.                  *)
(*                                                                         *)
(* Doubles are modelled as exact rationals [n, d] (d > 0, lowest terms).   *)
(* Inputs are drawn from grids on which the exponentials of the code are   *)
(* rational: the lattice draws u = exp(sigma*sqrt(dt)), the growth factor  *)
(* exp((r-q)*dt) and the discount factor exp(-r*dt) directly.              *)
(***************************************************************************)
EXTENDS Integers, Sequences, FiniteSets, TLC

VARIABLES
    \* ---- BinomialTreeModel::price (one call) ----
    t_pc,          \* position in price(): "start","terminal","induct","done","failed","idle"
    t_in,          \* the call's inputs: option, market data, num_steps_
    t_params,      \* TreeParams computed by calculate_parameters
    t_values,      \* std::vector<double> values(num_steps_ + 1)
    t_step,        \* outer loop variable `step`
    t_i,           \* inner loop variable `i`
    t_payoffs,     \* number of option.payoff evaluations made so far
    t_result       \* <<price>> once price() has returned, <<>> before and on a throw

VARIABLES
    \* ---- LSMCModel::price (one call) ----
    l_pc,          \* "start","terminal","backward","done","failed","idle"
    l_cfg,         \* config_: num_paths, num_timesteps, use_antithetic, polynomial_degree
    l_in,          \* the call's inputs: option, S0, the one-step discount exp(-r*dt)
    l_paths,       \* paths[i][j], i in 0..num_paths-1, j in 0..num_timesteps
    l_cash,        \* cash_flows[i][j]
    l_t,           \* loop variable t of the backward induction
    l_rng,         \* cursor of rng_: the number of normals drawn so far
    l_regs,        \* number of calls of regression() made so far
    l_error,       \* the exception that ended the call, "" if none
    l_result       \* <<price>> once price() has returned

VARIABLES
    \* ---- the engines' public entry points, one whole call per step ----
    f_mc,          \* a MonteCarloModel: [cfg |-> config_, rng |-> cursor of rng_]
    f_lsmc,        \* an LSMCModel: [cfg |-> config_, rng |-> cursor of rng_]
    f_calls,       \* number of calls made so far
    f_last         \* the last call: engine, entry point, option, outcome, paths simulated

tvars == <<t_pc, t_in, t_params, t_values, t_step, t_i, t_payoffs, t_result>>
lvars == <<l_pc, l_cfg, l_in, l_paths, l_cash, l_t, l_rng, l_regs, l_error, l_result>>

fvars == <<f_mc, f_lsmc, f_calls, f_last>>

VARIABLES
    \* ---- one call of MonteCarloModel::price_barrier ----
    b_pc,          \* "idle", "loop", "done"
    b_opt,         \* the BarrierOption
    b_cfg,         \* config_: num_paths, num_timesteps
    b_in,          \* spot S0 and exp(-r*T)
    b_i,           \* paths processed so far (the loop index i)
    b_path,        \* the path of the last iteration
    b_hit,         \* barrier_hit of the last iteration
    b_payoff,      \* payoff of the last iteration
    b_sum,         \* sum
    b_rng,         \* normals drawn from rng_
    b_result       \* the returned price

bvars == <<b_pc, b_opt, b_cfg, b_in, b_i, b_path, b_hit, b_payoff, b_sum, b_rng, b_result>>

VARIABLES
    \* ---- MonteCarloModel instances with equal configuration and seed, run
    \*      side by side: price_barrier of an option, price_barrier of its
    \*      in/out partner, price of the vanilla option ----
    p_pc,          \* "idle", "loop", "done"
    p_opt,         \* the BarrierOption of the first instance
    p_cfg,         \* the shared config_ (use_antithetic = false)
    p_in,          \* spot S0 and exp(-r*T)
    p_i,           \* paths processed so far
    p_path,        \* the path all instances simulated in the last iteration
    p_hit,         \* barrier_hit of the two barrier instances
    p_pay,         \* payoff of the last iteration: option, partner, vanilla
    p_sum,         \* sum of each instance
    p_result       \* the three returned prices

pvars == <<p_pc, p_opt, p_cfg, p_in, p_i, p_path, p_hit, p_pay, p_sum, p_result>>

VARIABLES
    \* ---- one call of MonteCarloModel::price on a vanilla European option ----
    m_pc,          \* "idle", "loop", "done"
    m_opt,         \* the option
    m_cfg,         \* config_: num_paths, num_timesteps, use_antithetic
    m_in,          \* spot S0, exp(drift), exp(diffusion), exp(-r*T)
    m_i,           \* loop index i
    m_shocks,      \* the normals dW drawn for the path of the last iteration
    m_pay,         \* payoff of the path of the last iteration
    m_anti,        \* what the antithetic branch added in the last iteration
    m_sum,         \* sum
    m_terms,       \* number of terms added to sum so far
    m_div,         \* actual_paths, the divisor of the mean
    m_rng,         \* normals drawn from rng_
    m_result       \* the returned price

mvars == <<m_pc, m_opt, m_cfg, m_in, m_i, m_shocks, m_pay, m_anti, m_sum, m_terms,
           m_div, m_rng, m_result>>

VARIABLES
    \* ---- two MonteCarloModel instances and the calls made on them ----
    d_caches,      \* the build: std::normal_distribution keeps a spare normal
    d_x,           \* first instance: [cfg |-> config_, rng |-> state of rng_]
    d_y,           \* second instance
    d_phase,       \* "apart": x is used alone; "equal": both get the same calls
    d_calls,       \* calls made so far
    d_prices       \* the prices the last common call returned: [x, y]

dvars == <<d_caches, d_x, d_y, d_phase, d_calls, d_prices>>

VARIABLES
    \* ---- one call of PricingModel::numerical_greeks ----
    g_pc,          \* the next statement: "base", "spot_up", ..., "done", "failed"
    g_engine,      \* the engine whose greeks() was called
    g_opt,         \* the option passed: product kind, style, expiry in days
    g_priced,      \* what each price call so far was given, by name of the call
    g_error        \* the exception that ended the call, "" if none

gvars == <<g_pc, g_engine, g_opt, g_priced, g_error>>

VARIABLES
    \* ---- one construction of a MarketData or of an Option ----
    c_pc,          \* "idle", "call", "constructed", "thrown"
    c_class,       \* "MarketData" or "Option"
    c_args,        \* the constructor's arguments
    c_error        \* what the constructor threw, "" if nothing

cvars == <<c_pc, c_class, c_args, c_error>>

VARIABLES
    \* ---- one call of BlackScholesModel::implied_volatility ----
    i_pc,          \* "idle", "loop", "returned", "thrown"
    i_opt,         \* the option (its style)
    i_args,        \* initial_guess, tolerance, max_iterations
    i_iter,        \* the loop index i
    i_sigma,       \* sigma
    i_diff,        \* price - market_price of the last iteration, at i_at
    i_at,          \* the volatility the last iteration priced at
    i_error,       \* what the call threw, "" if nothing
    i_result       \* the returned volatility

ivars == <<i_pc, i_opt, i_args, i_iter, i_sigma, i_diff, i_at, i_error, i_result>>

VARIABLES
    \* ---- one call of MonteCarloModel::price_asian ----
    a_pc,          \* "idle", "loop", "done"
    a_opt,         \* the AsianOption
    a_cfg,         \* config_: num_paths
    a_in,          \* spot S0 and exp(-r*T)
    a_i,           \* paths processed so far
    a_path,        \* the vector simulate_path returned in the last iteration
    a_count,       \* observations.size() inside calculate_average
    a_avg,         \* avg_price of the last iteration
    a_pay,         \* payoff of the last iteration
    a_sum,         \* sum
    a_result       \* the returned price

avars == <<a_pc, a_opt, a_cfg, a_in, a_i, a_path, a_count, a_avg, a_pay, a_sum, a_result>>

VARIABLES
    \* ---- one call of TrinomialTreeModel::price ----
    r_pc,          \* "idle", "terminal", "backward", "done"
    r_in,          \* option, spot, exp(dx), nu*dt/dx, df, num_steps
    r_values,      \* the array values, indices 0..2*num_steps
    r_step,        \* loop variable step
    r_i,           \* loop variable i: the next node to compute
    r_node,        \* the last node computed: step, i, offset, S_node, continuation
    r_result       \* the returned price

rvars == <<r_pc, r_in, r_values, r_step, r_i, r_node, r_result>>

VARIABLES
    \* ---- one call of HestonModel::price ----
    h_pc,          \* "idle", "check", "integrate", "return", "done", "failed"
    h_in,          \* option, market data, HestonParams and the drawn finite values
    h_j,           \* the integral being computed: 1 for P1, 2 for P2
    h_P,           \* P1 and P2
    h_result,      \* the returned price
    h_error        \* the exception thrown, "" when none

hvars == <<h_pc, h_in, h_j, h_P, h_result, h_error>>

VARIABLES
    \* ---- two MonteCarloModel instances called by two threads ----
    e_caches,      \* the build: std::normal_distribution keeps a spare normal
    e_models,      \* e_models[k]: [cfg |-> config_, rng |-> state of rng_]
    e_market,      \* the caller's MarketData, passed by const reference
    e_option,      \* the caller's Option, passed by const reference
    e_pos,         \* e_pos[k]: 0 outside greeks, else the prices greeks has taken
    e_log,         \* e_log[k]: the kinds of the price evaluations made on k
    e_prices       \* e_prices[k]: the prices they returned, in order

evars == <<e_caches, e_models, e_market, e_option, e_pos, e_log, e_prices>>

VARIABLES
    \* ---- one call of HestonModel::simulate_path ----
    s_pc,          \* "idle", "loop", "done"
    s_in,          \* S0, v0, HestonParams, dt, (r - q), num_steps
    s_i,           \* loop variable i: the next entry to compute
    s_S,           \* S_path, indices 0..num_steps
    s_v,           \* v_path, indices 0..num_steps
    s_draws,       \* the normals drawn from rng so far
    s_step         \* what the last step computed: z1, z2, Z1, Z2, v_prev, root

svars == <<s_pc, s_in, s_i, s_S, s_v, s_draws, s_step>>

vars == <<tvars, lvars, fvars, bvars, pvars, mvars, dvars, gvars, cvars, ivars, avars, rvars, hvars, evars, svars>>

(***************************************************************************)
(* Exact rational arithmetic standing for double arithmetic.               *)
(***************************************************************************)
Abs(x) == IF x < 0 THEN -x ELSE x

RECURSIVE GCD(_, _)
GCD(a, b) == IF b = 0 THEN a ELSE GCD(b, a % b)

Rat(n, d) ==
    LET s == IF d < 0 THEN -1 ELSE 1
        g == GCD(Abs(n), Abs(d))
    IN  [n |-> (s * n) \div g, d |-> (s * d) \div g]

Zero == Rat(0, 1)
One == Rat(1, 1)
RInt(k) == Rat(k, 1)
RAdd(a, b) == Rat(a.n * b.d + b.n * a.d, a.d * b.d)
RSub(a, b) == Rat(a.n * b.d - b.n * a.d, a.d * b.d)
RMul(a, b) == Rat(a.n * b.n, a.d * b.d)
RDiv(a, b) == Rat(a.n * b.d, a.d * b.n)
RLess(a, b) == a.n * b.d < b.n * a.d
RLeq(a, b) == a.n * b.d <= b.n * a.d
RMax(a, b) == IF RLess(a, b) THEN b ELSE a      \* std::max(a, b): (a < b) ? b : a

RECURSIVE RPow(_, _)
RPow(a, k) == IF k = 0 THEN One ELSE RMul(a, RPow(a, k - 1))

\* What a call has returned: nothing yet (or an exception), or one number.
NoResult == <<>>
Returned(x) == <<x>>

(***************************************************************************)
(* Option (products/option.hpp) and the option styles (core/types.hpp).    *)
(***************************************************************************)
OptionType == {"CALL", "PUT"}
OptionStyle == {"EUROPEAN", "AMERICAN", "BERMUDAN"}

\* Option::payoff: max(spot - strike, 0) for a call, max(strike - spot, 0) for a put.
payoff(option, spot) ==
    IF option.type = "CALL"
    THEN RMax(RSub(spot, option.strike), Zero)
    ELSE RMax(RSub(option.strike, spot), Zero)

(***************************************************************************)
(* BinomialTreeModel (src/models/binomial_tree.cpp).                       *)
(***************************************************************************)
MaxTreeSteps == 3

\* exp(sigma*sqrt(dt)) > 1, exp((r-q)*dt) > 0 and exp(-r*dt) > 0 of the call.
UpFactors == {Rat(2, 1)}
GrowthFactors == {Rat(1, 4), Rat(1, 2), Rat(1, 1), Rat(5, 4), Rat(2, 1), Rat(3, 1)}
DiscountFactors == {Rat(1, 1), Rat(4, 5)}
TreeOptions ==
    [type : OptionType, style : OptionStyle, strike : {RInt(4)}]
TreeInputs ==
    [option : TreeOptions, spot : {RInt(3), RInt(4)}, u : UpFactors,
     growth : GrowthFactors, df : DiscountFactors, num_steps : 1..MaxTreeSteps]

\* The check of calculate_parameters: p < 0.0 || p > 1.0 throws.
InvalidProbabilityLowOnly(p) == RLess(p, Zero)
InvalidProbability(p) == RLess(p, Zero) \/ RLess(One, p)

\* TreeParams of calculate_parameters, with u, growth_factor and df given.
calculate_parameters(in) ==
    LET d == RDiv(One, in.u)
    IN  [u |-> in.u, d |-> d, df |-> in.df,
         p |-> RDiv(RSub(in.growth, d), RSub(in.u, d))]

\* S * pow(u, step - i) * pow(d, i)
NodeSpot(in, params, step, i) ==
    RMul(RMul(in.spot, RPow(params.u, step - i)), RPow(params.d, i))

\* Terminal layer: values[i] = payoff(S * u^(N-i) * d^i), i = 0..N.
TerminalValues(in, params) ==
    [i \in 0..in.num_steps |-> payoff(in.option, NodeSpot(in, params, in.num_steps, i))]

\* df * (p * values[i] + (1 - p) * values[i + 1])
ContinuationSwapped(params, values, i) ==
    RMul(params.df, RAdd(RMul(params.p, values[i + 1]),
                         RMul(RSub(One, params.p), values[i])))
Continuation(params, values, i) ==
    RMul(params.df, RAdd(RMul(params.p, values[i]),
                         RMul(RSub(One, params.p), values[i + 1])))

\* One iteration of the inner loop of price_european.
EuropeanNode(in, params, values, step, i) ==
    [values EXCEPT ![i] = Continuation(params, values, i)]

\* One iteration of the inner loop of price_american.
AmericanNodeNoExercise(in, params, values, step, i) ==
    [values EXCEPT ![i] = Continuation(params, values, i)]
AmericanNode(in, params, values, step, i) ==
    LET continuation == Continuation(params, values, i)
        exercise == payoff(in.option, NodeSpot(in, params, step, i))
    IN  [values EXCEPT ![i] = RMax(continuation, exercise)]

\* The backward-induction loops of price_european from (step, i) to the end.
RECURSIVE EuropeanInduction(_, _, _, _, _)
EuropeanInduction(in, params, values, step, i) ==
    IF step < 0 THEN values
    ELSE LET v == EuropeanNode(in, params, values, step, i)
         IN  IF i < step
             THEN EuropeanInduction(in, params, v, step, i + 1)
             ELSE EuropeanInduction(in, params, v, step - 1, 0)

\* price_european: terminal layer, backward induction, values[0].
price_european(in, params) ==
    EuropeanInduction(in, params, TerminalValues(in, params), in.num_steps - 1, 0)[0]

\* price(): the dispatch on option.style().
UsesAmericanInduction(option) == option.style = "AMERICAN"

\* No lattice call is in progress.
TreeIdle ==
    /\ t_pc = "idle"
    /\ t_in = [option |-> [type |-> "CALL", style |-> "EUROPEAN", strike |-> One],
               spot |-> One, u |-> One, growth |-> One, df |-> One, num_steps |-> 0]
    /\ t_params = [u |-> Zero, d |-> Zero, df |-> Zero, p |-> Zero]
    /\ t_values = [i \in 0..0 |-> Zero]
    /\ t_step = 0
    /\ t_i = 0
    /\ t_payoffs = 0
    /\ t_result = NoResult

TreeCall ==
    /\ t_pc = "start"
    /\ t_in \in TreeInputs
    /\ t_params = [u |-> Zero, d |-> Zero, df |-> Zero, p |-> Zero]
    /\ t_values = [i \in 0..t_in.num_steps |-> Zero]
    /\ t_step = 0
    /\ t_i = 0
    /\ t_payoffs = 0
    /\ t_result = NoResult

\* price() line 34: calculate_parameters returns the parameters ...
TreeParameters ==
    /\ t_pc = "start"
    /\ ~InvalidProbability(calculate_parameters(t_in).p)
    /\ t_params' = calculate_parameters(t_in)
    /\ t_pc' = "terminal"
    /\ UNCHANGED <<t_in, t_values, t_step, t_i, t_payoffs, t_result>>
    /\ UNCHANGED <<lvars, fvars, bvars, pvars, mvars, dvars, gvars, cvars, ivars, avars, rvars, hvars, evars, svars>>

\* ... or throws std::runtime_error("Invalid binomial tree parameters").
TreeParametersThrow ==
    /\ t_pc = "start"
    /\ InvalidProbability(calculate_parameters(t_in).p)
    /\ t_params' = calculate_parameters(t_in)
    /\ t_pc' = "failed"
    /\ UNCHANGED <<t_in, t_values, t_step, t_i, t_payoffs, t_result>>
    /\ UNCHANGED <<lvars, fvars, bvars, pvars, mvars, dvars, gvars, cvars, ivars, avars, rvars, hvars, evars, svars>>

\* The terminal loop of price_european / price_american.
TreeTerminal ==
    /\ t_pc = "terminal"
    /\ t_values' = TerminalValues(t_in, t_params)
    /\ t_payoffs' = t_payoffs + t_in.num_steps + 1
    /\ t_step' = t_in.num_steps - 1
    /\ t_i' = 0
    /\ t_pc' = "induct"
    /\ UNCHANGED <<t_in, t_params, t_result>>
    /\ UNCHANGED <<lvars, fvars, bvars, pvars, mvars, dvars, gvars, cvars, ivars, avars, rvars, hvars, evars, svars>>

\* One inner-loop iteration of the backward induction; after i = step the
\* outer loop moves to step - 1.
TreeNode ==
    /\ t_pc = "induct"
    /\ t_step >= 0
    /\ IF UsesAmericanInduction(t_in.option)
       THEN /\ t_values' = AmericanNode(t_in, t_params, t_values, t_step, t_i)
            /\ t_payoffs' = t_payoffs + 1
       ELSE /\ t_values' = EuropeanNode(t_in, t_params, t_values, t_step, t_i)
            /\ t_payoffs' = t_payoffs
    /\ IF t_i < t_step
       THEN /\ t_i' = t_i + 1
            /\ t_step' = t_step
       ELSE /\ t_i' = 0
            /\ t_step' = t_step - 1
    /\ UNCHANGED <<t_pc, t_in, t_params, t_result>>
    /\ UNCHANGED <<lvars, fvars, bvars, pvars, mvars, dvars, gvars, cvars, ivars, avars, rvars, hvars, evars, svars>>

\* return values[0]
TreeReturn ==
    /\ t_pc = "induct"
    /\ t_step < 0
    /\ t_result' = Returned(t_values[0])
    /\ t_pc' = "done"
    /\ UNCHANGED <<t_in, t_params, t_values, t_step, t_i, t_payoffs>>
    /\ UNCHANGED <<lvars, fvars, bvars, pvars, mvars, dvars, gvars, cvars, ivars, avars, rvars, hvars, evars, svars>>

TreeNext ==
    \/ TreeParameters
    \/ TreeParametersThrow
    \/ TreeTerminal
    \/ TreeNode
    \/ TreeReturn

(***************************************************************************)
(* Gaussian elimination (src/math/matrix.cpp), on matrices                 *)
(* [0..n-1 -> [0..n-1 -> rational]] and vectors [0..n-1 -> rational].      *)
(***************************************************************************)
RAbs(a) == [n |-> Abs(a.n), d |-> a.d]

RECURSIVE SumSeq(_)
SumSeq(s) == IF s = <<>> THEN Zero ELSE RAdd(Head(s), SumSeq(Tail(s)))

\* std::abs(A(i, i)) < 1e-10.  Every non-zero magnitude the model's arithmetic
\* can hold (numerator and denominator below 2^31) is above 1e-10.
NearlyZero(a) == a.n = 0

\* The pivot search: the first row k >= i whose |A(k, i)| is the largest.
PivotRow(A, i, n) ==
    CHOOSE k \in i..(n - 1) :
        \A l \in i..(n - 1) :
            \/ RLess(RAbs(A[l][i]), RAbs(A[k][i]))
            \/ (RAbs(A[l][i]) = RAbs(A[k][i]) /\ l >= k)

\* Swap rows i and r from column i on, as the code does.
SwapRows(A, i, r, n) ==
    [k \in 0..(n - 1) |->
        [j \in 0..(n - 1) |->
            IF j < i THEN A[k][j]
            ELSE IF k = i THEN A[r][j]
            ELSE IF k = r THEN A[i][j]
            ELSE A[k][j]]]

SwapEntries(b, i, r, n) ==
    [k \in 0..(n - 1) |-> IF k = i THEN b[r] ELSE IF k = r THEN b[i] ELSE b[k]]

\* The forward pass from column i: [ok, A, b]; ok is FALSE when the code
\* throws "Matrix is singular or nearly singular".
\* The same function, evaluated once (a function constructor is evaluated
\* lazily, entry by entry, at every use).
Materialise(f) == IF f = f THEN f ELSE f

RECURSIVE GaussEliminate(_, _, _, _)
GaussEliminate(A, b, i, n) ==
    IF i = n THEN [ok |-> TRUE, A |-> A, b |-> b]
    ELSE LET r == PivotRow(A, i, n)
             As == Materialise(SwapRows(A, i, r, n))
             bs == Materialise(SwapEntries(b, i, r, n))
         IN  IF NearlyZero(As[i][i]) THEN [ok |-> FALSE, A |-> As, b |-> bs]
             ELSE LET factor(k) == RDiv(As[k][i], As[i][i])
                      Ae == [k \in 0..(n - 1) |->
                                [j \in 0..(n - 1) |->
                                    IF k > i /\ j >= i
                                    THEN RSub(As[k][j], RMul(factor(k), As[i][j]))
                                    ELSE As[k][j]]]
                      be == [k \in 0..(n - 1) |->
                                IF k > i THEN RSub(bs[k], RMul(factor(k), bs[i]))
                                ELSE bs[k]]
                  IN  GaussEliminate(Materialise(Ae), Materialise(be), i + 1, n)

\* Back substitution from row i down to row 0.
RECURSIVE BackSubstitute(_, _, _, _, _)
BackSubstitute(A, b, x, i, n) ==
    IF i < 0 THEN x
    ELSE LET sum == SumSeq([j \in 1..(n - 1 - i) |-> RMul(A[i][i + j], x[i + j])])
             xi == RDiv(RSub(b[i], sum), A[i][i])
         IN  BackSubstitute(A, b, [x EXCEPT ![i] = xi], i - 1, n)

\* solve_linear_system(A, b): [ok |-> TRUE, x |-> solution] or ok = FALSE (throws).
solve_linear_system(A, b, n) ==
    LET e == GaussEliminate(A, b, 0, n)
    IN  IF e.ok
        THEN [ok |-> TRUE,
              x |-> BackSubstitute(e.A, e.b, [k \in 0..(n - 1) |-> Zero], n - 1, n)]
        ELSE [ok |-> FALSE, x |-> [k \in 0..(n - 1) |-> Zero]]

(***************************************************************************)
(* LSMCModel (src/models/heston.cpp, second part).                         *)
(* Spot levels are small integers; exp(-x/2) of the Laguerre basis is      *)
(* taken on that grid with e^(-1/2) rounded to 1/2.                        *)
(***************************************************************************)
MaxPaths == 2

SpotLevels == {1, 2}
TimestepCounts == {1, 2, 3}
PolynomialDegrees == {0, 1}
\* Puts struck at 3 (in the money on both levels) and at 2 (in the money at
\* level 1 only), calls struck at 1 (in the money at level 2 only).
LsmcContracts ==
    {[type |-> "PUT", strike |-> RInt(3)], [type |-> "PUT", strike |-> RInt(2)],
     [type |-> "CALL", strike |-> RInt(1)]}
LsmcOptions ==
    {[type |-> c.type, style |-> st, strike |-> c.strike] :
        c \in LsmcContracts, st \in OptionStyle}
LsmcInputs ==
    [option : LsmcOptions, spot : {2}, df : {Rat(1, 2), Rat(1, 1)}]
LsmcConfigs ==
    [num_paths : 1..MaxPaths, num_timesteps : TimestepCounts,
     use_antithetic : BOOLEAN, polynomial_degree : PolynomialDegrees]

\* std::exp(-x / 2.0)
ExpNegHalf(x) == RPow(Rat(1, 2), x)

\* basis_functions(x, degree)[i]: weighted Laguerre polynomials.
RECURSIVE Basis(_, _)
Basis(x, i) ==
    LET e == ExpNegHalf(x)
        rx == RInt(x)
    IN  IF i = 0 THEN e
        ELSE IF i = 1 THEN RMul(e, RSub(One, rx))
        ELSE IF i = 2
             THEN RMul(e, RAdd(RSub(One, RMul(RInt(2), rx)), RMul(Rat(1, 2), RMul(rx, rx))))
        ELSE IF i = 3
             THEN RMul(e, RSub(RAdd(RSub(One, RMul(RInt(3), rx)),
                                    RMul(Rat(3, 2), RMul(rx, rx))),
                               RMul(Rat(1, 6), RMul(rx, RMul(rx, rx)))))
        ELSE RDiv(RSub(RMul(RSub(RInt(2 * i - 1), rx), Basis(x, i - 1)),
                       RMul(RInt(i - 1), Basis(x, i - 2))), RInt(i))

basis_functions(x, degree) == [i \in 0..degree |-> Basis(x, i)]

\* regression(x, y, degree): the normal equations A^T A beta = A^T y.
\* x and y are sequences; [ok, coeffs], ok = FALSE when the call throws.
regression(x, y, degree) ==
    LET n == Len(x)
        m == degree + 1
        A == Materialise([k \in 1..n |-> basis_functions(x[k], degree)])
        ATA == [i \in 0..(m - 1) |->
                   [j \in 0..(m - 1) |-> SumSeq([k \in 1..n |-> RMul(A[k][i], A[k][j])])]]
        ATy == [i \in 0..(m - 1) |-> SumSeq([k \in 1..n |-> RMul(A[k][i], y[k])])]
        sol == solve_linear_system(Materialise(ATA), Materialise(ATy), m)
    IN  IF Len(x) # Len(y) \/ n = 0
        THEN [ok |-> FALSE, coeffs |-> <<>>]
        ELSE [ok |-> sol.ok, coeffs |-> sol.x]

\* evaluate_polynomial(coeffs, x), coeffs a function on 0..degree.
evaluate_polynomial(coeffs, degree, x) ==
    SumSeq([k \in 1..(degree + 1) |-> RMul(coeffs[k - 1], Basis(x, k - 1))])

\* size_t actual_paths = use_antithetic ? num_paths / 2 : num_paths
ActualPaths(cfg) == IF cfg.use_antithetic THEN cfg.num_paths \div 2 ELSE cfg.num_paths

\* generate_paths: the rows i < actual_paths are simulated from the draws
\* (every positive value is S[j-1]*exp(drift + diffusion*dW) for some dW),
\* the row i + actual_paths copies row i when it exists, and a row that is
\* never written keeps the zeros the vector was constructed with.
generate_paths(cfg, S0, drawn) ==
    LET actual == ActualPaths(cfg)
    IN  [i \in 0..(cfg.num_paths - 1) |->
            [j \in 0..cfg.num_timesteps |->
                IF i < actual
                THEN IF j = 0 THEN S0 ELSE drawn[i][j]
                ELSE IF cfg.use_antithetic /\ i - actual < actual
                     THEN IF j = 0 THEN S0 ELSE drawn[i - actual][j]
                     ELSE 0]]

\* The terminal initialisation of cash_flows.
TerminalCashFlows(cfg, option, paths) ==
    [i \in 0..(cfg.num_paths - 1) |->
        [j \in 0..cfg.num_timesteps |->
            IF j = cfg.num_timesteps THEN payoff(option, RInt(paths[i][j])) ELSE Zero]]

\* The in-the-money paths at t, in index order: payoff(paths[i][t]) > 0.
ItmIndices(cfg, option, paths, t) ==
    LET InTheMoney(i) == RLess(Zero, payoff(option, RInt(paths[i][t])))
    IN  SelectSeq([k \in 1..cfg.num_paths |-> k - 1], InTheMoney)

\* The first positive cash flow of a row strictly after t, discounted to t.
FutureCashFlowUndiscounted(cfg, df, row, t) ==
    LET later == {j \in (t + 1)..cfg.num_timesteps : RLess(Zero, row[j])}
    IN  IF later = {} THEN Zero
        ELSE row[CHOOSE a \in later : \A b \in later : a <= b]
FutureCashFlow(cfg, df, row, t) ==
    LET later == {j \in (t + 1)..cfg.num_timesteps : RLess(Zero, row[j])}
    IN  IF later = {} THEN Zero
        ELSE LET j == CHOOSE a \in later : \A b \in later : a <= b
             IN  RMul(row[j], RPow(df, j - t))

\* x_itm.size() >= static_cast<size_t>(polynomial_degree + 1)
EnoughForRegressionAlways(cfg, itm) == TRUE
EnoughForRegression(cfg, itm) == Len(itm) >= cfg.polynomial_degree + 1

\* Exercise now: cash_flows[i][t] = exercise_value, later entries cleared.
ExerciseRowKeepLater(cfg, row, t, exercise_value) ==
    [row EXCEPT ![t] = exercise_value]
ExerciseRow(cfg, row, t, exercise_value) ==
    [j \in 0..cfg.num_timesteps |->
        IF j = t THEN exercise_value ELSE IF j > t THEN Zero ELSE row[j]]

\* The exercise decisions of step t, given the fitted coefficients.
ExerciseDecisions(cfg, option, paths, cash, t, itm, coeffs) ==
    [i \in 0..(cfg.num_paths - 1) |->
        IF \E k \in 1..Len(itm) : itm[k] = i
        THEN LET continuation_value ==
                     evaluate_polynomial(coeffs, cfg.polynomial_degree, paths[i][t])
                 exercise_value == payoff(option, RInt(paths[i][t]))
             IN  IF RLess(continuation_value, exercise_value)
                 THEN ExerciseRow(cfg, cash[i], t, exercise_value)
                 ELSE cash[i]
        ELSE cash[i]]

\* The regression of step t: x_itm, y_itm and the fit.
StepRegression(cfg, in, paths, cash, t) ==
    LET itm == ItmIndices(cfg, in.option, paths, t)
        x_itm == [k \in 1..Len(itm) |-> paths[itm[k]][t]]
        y_itm == [k \in 1..Len(itm) |-> FutureCashFlow(cfg, in.df, cash[itm[k]], t)]
    IN  regression(Materialise(x_itm), Materialise(y_itm), cfg.polynomial_degree)

\* The average of each path's first positive cash flow discounted to time 0.
FirstCashFlowToZero(cfg, df, row) ==
    LET positive == {t \in 0..cfg.num_timesteps : RLess(Zero, row[t])}
    IN  IF positive = {} THEN Zero
        ELSE LET t == CHOOSE a \in positive : \A b \in positive : a <= b
             IN  RMul(row[t], RPow(df, t))

DiscountedAverage(cfg, df, cash) ==
    RDiv(SumSeq([k \in 1..cfg.num_paths |-> FirstCashFlowToZero(cfg, df, cash[k - 1])]),
         RInt(cfg.num_paths))

\* LSMCModel::price: option.style() != OptionStyle::AMERICAN throws.
LsmcSupportsAnyStyle(option) == TRUE
LsmcSupports(option) == option.style = "AMERICAN"

LsmcIdle ==
    /\ l_pc = "idle"
    /\ l_cfg = [num_paths |-> 1, num_timesteps |-> 1, use_antithetic |-> FALSE,
                polynomial_degree |-> 0]
    /\ l_in = [option |-> [type |-> "PUT", style |-> "AMERICAN", strike |-> One],
               spot |-> 1, df |-> One]
    /\ l_paths = [i \in 0..0 |-> [j \in 0..1 |-> 0]]
    /\ l_cash = [i \in 0..0 |-> [j \in 0..1 |-> Zero]]
    /\ l_t = 0
    /\ l_rng = 0
    /\ l_regs = 0
    /\ l_error = ""
    /\ l_result = NoResult

\* An LSMCModel with its configuration, and one call of price.
LsmcCall ==
    /\ l_pc = "start"
    /\ l_cfg \in LsmcConfigs
    /\ l_in \in LsmcInputs
    /\ l_paths = [i \in 0..(l_cfg.num_paths - 1) |-> [j \in 0..l_cfg.num_timesteps |-> 0]]
    /\ l_cash = [i \in 0..(l_cfg.num_paths - 1) |-> [j \in 0..l_cfg.num_timesteps |-> Zero]]
    /\ l_t = 0
    /\ l_rng = 0
    /\ l_regs = 0
    /\ l_error = ""
    /\ l_result = NoResult

\* The style check throws std::invalid_argument.
LsmcRejectStyle ==
    /\ l_pc = "start"
    /\ ~LsmcSupports(l_in.option)
    /\ l_pc' = "failed"
    /\ l_error' = "invalid_argument: style"
    /\ UNCHANGED <<l_cfg, l_in, l_paths, l_cash, l_t, l_rng, l_regs, l_result>>
    /\ UNCHANGED <<tvars, fvars, bvars, pvars, mvars, dvars, gvars, cvars, ivars, avars, rvars, hvars, evars, svars>>

\* generate_paths, with one normal drawn per simulated step.
LsmcGeneratePaths ==
    /\ l_pc = "start"
    /\ LsmcSupports(l_in.option)
    /\ \E drawn \in [0..(ActualPaths(l_cfg) - 1) -> [1..l_cfg.num_timesteps -> SpotLevels]] :
           l_paths' = generate_paths(l_cfg, l_in.spot, drawn)
    /\ l_rng' = l_rng + ActualPaths(l_cfg) * l_cfg.num_timesteps
    /\ l_pc' = "terminal"
    /\ UNCHANGED <<l_cfg, l_in, l_cash, l_t, l_regs, l_error, l_result>>
    /\ UNCHANGED <<tvars, fvars, bvars, pvars, mvars, dvars, gvars, cvars, ivars, avars, rvars, hvars, evars, svars>>

\* cash_flows[i][num_timesteps] = payoff(paths[i][num_timesteps])
LsmcTerminal ==
    /\ l_pc = "terminal"
    /\ l_cash' = TerminalCashFlows(l_cfg, l_in.option, l_paths)
    /\ l_t' = l_cfg.num_timesteps - 1
    /\ l_pc' = "backward"
    /\ UNCHANGED <<l_cfg, l_in, l_paths, l_rng, l_regs, l_error, l_result>>
    /\ UNCHANGED <<tvars, fvars, bvars, pvars, mvars, dvars, gvars, cvars, ivars, avars, rvars, hvars, evars, svars>>

\* One step t of the backward induction with too few in-the-money paths.
LsmcStepSkip ==
    /\ l_pc = "backward"
    /\ l_t >= 1
    /\ ~EnoughForRegression(l_cfg, ItmIndices(l_cfg, l_in.option, l_paths, l_t))
    /\ l_t' = l_t - 1
    /\ UNCHANGED <<l_pc, l_cfg, l_in, l_paths, l_cash, l_rng, l_regs, l_error, l_result>>
    /\ UNCHANGED <<tvars, fvars, bvars, pvars, mvars, dvars, gvars, cvars, ivars, avars, rvars, hvars, evars, svars>>

\* One step t with a regression and its exercise decisions.
LsmcStepRegress ==
    /\ l_pc = "backward"
    /\ l_t >= 1
    /\ EnoughForRegression(l_cfg, ItmIndices(l_cfg, l_in.option, l_paths, l_t))
    /\ LET fit == StepRegression(l_cfg, l_in, l_paths, l_cash, l_t)
       IN  /\ fit.ok
           /\ l_cash' = ExerciseDecisions(l_cfg, l_in.option, l_paths, l_cash, l_t,
                                          ItmIndices(l_cfg, l_in.option, l_paths, l_t),
                                          fit.coeffs)
    /\ l_regs' = l_regs + 1
    /\ l_t' = l_t - 1
    /\ UNCHANGED <<l_pc, l_cfg, l_in, l_paths, l_rng, l_error, l_result>>
    /\ UNCHANGED <<tvars, fvars, bvars, pvars, mvars, dvars, gvars, cvars, ivars, avars, rvars, hvars, evars, svars>>

\* One step t whose regression throws: the exception leaves price().
LsmcStepThrow ==
    /\ l_pc = "backward"
    /\ l_t >= 1
    /\ EnoughForRegression(l_cfg, ItmIndices(l_cfg, l_in.option, l_paths, l_t))
    /\ ~StepRegression(l_cfg, l_in, l_paths, l_cash, l_t).ok
    /\ l_regs' = l_regs + 1
    /\ l_pc' = "failed"
    /\ l_error' = "runtime_error: singular"
    /\ UNCHANGED <<l_cfg, l_in, l_paths, l_cash, l_t, l_rng, l_result>>
    /\ UNCHANGED <<tvars, fvars, bvars, pvars, mvars, dvars, gvars, cvars, ivars, avars, rvars, hvars, evars, svars>>

\* return sum / num_paths
LsmcReturn ==
    /\ l_pc = "backward"
    /\ l_t < 1
    /\ l_result' = Returned(DiscountedAverage(l_cfg, l_in.df, l_cash))
    /\ l_pc' = "done"
    /\ UNCHANGED <<l_cfg, l_in, l_paths, l_cash, l_t, l_rng, l_regs, l_error>>
    /\ UNCHANGED <<tvars, fvars, bvars, pvars, mvars, dvars, gvars, cvars, ivars, avars, rvars, hvars, evars, svars>>

LsmcNext ==
    \/ LsmcRejectStyle
    \/ LsmcGeneratePaths
    \/ LsmcTerminal
    \/ LsmcStepSkip
    \/ LsmcStepRegress
    \/ LsmcStepThrow
    \/ LsmcReturn

(***************************************************************************)
(* The public entry points of MonteCarloModel, LSMCModel, HestonModel and  *)
(* BlackScholesModel: what a call checks, what it draws, how it ends.      *)
(* The number a successful call returns is not computed here.              *)
(***************************************************************************)
MaxCalls == 2

StyleError == "invalid_argument: unsupported style"

\* Asian and barrier options are constructed EUROPEAN; Option takes any style.
ProductKinds == {"vanilla", "asian", "barrier"}
FacadeOptions ==
    {o \in [kind : ProductKinds, style : OptionStyle, num_observations : {2}] :
        o.kind # "vanilla" => o.style = "EUROPEAN"}

FacadeMcConfigs ==
    [num_paths : {2}, num_timesteps : {1, 2}, use_antithetic : BOOLEAN]
FacadeLsmcConfigs ==
    [num_paths : {2}, num_timesteps : {2}, use_antithetic : BOOLEAN,
     polynomial_degree : {1}]

\* MonteCarloModel::price: option.style() != OptionStyle::EUROPEAN throws.
McSupportsAnyStyle(option) == TRUE
McSupports(option) == option.style = "EUROPEAN"

\* HestonModel::price: option.style() != OptionStyle::EUROPEAN throws.
HestonSupports(option) == option.style = "EUROPEAN"

\* BlackScholesModel::price: option.style() != OptionStyle::EUROPEAN throws.
BsSupports(option) == option.style = "EUROPEAN"

\* The paths MonteCarloModel::price simulates for an option it accepts ...
McPathsSimulated(cfg, option) ==
    IF option.kind = "vanilla" /\ cfg.use_antithetic
    THEN cfg.num_paths \div 2 ELSE cfg.num_paths

\* ... and the normals it draws: one per step of each simulated path.
McDraws(cfg, option) ==
    McPathsSimulated(cfg, option) *
        (IF option.kind = "asian" THEN option.num_observations ELSE cfg.num_timesteps)

Call(engine, entry, option, outcome, simulated) ==
    [engine |-> engine, entry |-> entry, option |-> option, outcome |-> outcome,
     simulated |-> simulated]

FacadeIdle ==
    /\ f_mc = [cfg |-> [num_paths |-> 1, num_timesteps |-> 1, use_antithetic |-> FALSE],
               rng |-> 0]
    /\ f_lsmc = [cfg |-> [num_paths |-> 1, num_timesteps |-> 1, use_antithetic |-> FALSE,
                          polynomial_degree |-> 0], rng |-> 0]
    /\ f_calls = 0
    /\ f_last = Call("", "", [kind |-> "vanilla", style |-> "EUROPEAN",
                              num_observations |-> 2], "", 0)

\* The engines as constructed: rng_(config.seed), nothing drawn yet.
FacadeConstructed ==
    /\ f_mc \in [cfg : FacadeMcConfigs, rng : {0}]
    /\ f_lsmc \in [cfg : FacadeLsmcConfigs, rng : {0}]
    /\ f_calls = 0
    /\ f_last = Call("", "", [kind |-> "vanilla", style |-> "EUROPEAN",
                              num_observations |-> 2], "", 0)

\* MonteCarloModel::price
FacadeMcPrice ==
    /\ f_calls < MaxCalls
    /\ \E option \in FacadeOptions :
          IF McSupports(option)
          THEN /\ f_mc' = [f_mc EXCEPT !.rng = @ + McDraws(f_mc.cfg, option)]
               /\ f_last' = Call("MonteCarloModel", "price", option, "number",
                                 McPathsSimulated(f_mc.cfg, option))
          ELSE /\ f_mc' = f_mc
               /\ f_last' = Call("MonteCarloModel", "price", option, StyleError, 0)
    /\ f_calls' = f_calls + 1
    /\ UNCHANGED <<f_lsmc, tvars, lvars, bvars, pvars, mvars, dvars, gvars, cvars, ivars, avars, rvars, hvars, evars, svars>>

\* LSMCModel::price: the style check, then generate_paths and the backward
\* induction, which returns a number or fails in the regression.
FacadeLsmcPrice ==
    /\ f_calls < MaxCalls
    /\ \E option \in {o \in FacadeOptions : o.kind = "vanilla"} :
          IF LsmcSupports(option)
          THEN /\ f_lsmc' = [f_lsmc EXCEPT !.rng = @ + ActualPaths(f_lsmc.cfg) *
                                                       f_lsmc.cfg.num_timesteps]
               /\ \E outcome \in {"number", "runtime_error: singular matrix"} :
                      f_last' = Call("LSMCModel", "price", option, outcome,
                                     ActualPaths(f_lsmc.cfg))
          ELSE /\ f_lsmc' = f_lsmc
               /\ f_last' = Call("LSMCModel", "price", option, StyleError, 0)
    /\ f_calls' = f_calls + 1
    /\ UNCHANGED <<f_mc, tvars, lvars, bvars, pvars, mvars, dvars, gvars, cvars, ivars, avars, rvars, hvars, evars, svars>>

\* HestonModel::price: the style check, then price_semi_analytical.
FacadeHestonPrice ==
    /\ f_calls < MaxCalls
    /\ \E option \in {o \in FacadeOptions : o.kind = "vanilla"} :
          f_last' = Call("HestonModel", "price", option,
                         IF HestonSupports(option) THEN "number" ELSE StyleError, 0)
    /\ f_calls' = f_calls + 1
    /\ UNCHANGED <<f_mc, f_lsmc, tvars, lvars, bvars, pvars, mvars, dvars, gvars, cvars, ivars, avars, rvars, hvars, evars, svars>>

\* HestonModel::price_semi_analytical (public): no check of the style.
FacadeHestonSemiAnalytical ==
    /\ f_calls < MaxCalls
    /\ \E option \in {o \in FacadeOptions : o.kind = "vanilla"} :
          f_last' = Call("HestonModel", "price_semi_analytical", option, "number", 0)
    /\ f_calls' = f_calls + 1
    /\ UNCHANGED <<f_mc, f_lsmc, tvars, lvars, bvars, pvars, mvars, dvars, gvars, cvars, ivars, avars, rvars, hvars, evars, svars>>

\* HestonModel::price_monte_carlo (public): no check of the style; a local
\* generator seeded 12345 simulates num_paths paths.
FacadeHestonMonteCarlo ==
    /\ f_calls < MaxCalls
    /\ \E option \in {o \in FacadeOptions : o.kind = "vanilla"} :
          \E num_paths \in {1, 2} :
              f_last' = Call("HestonModel", "price_monte_carlo", option, "number", num_paths)
    /\ f_calls' = f_calls + 1
    /\ UNCHANGED <<f_mc, f_lsmc, tvars, lvars, bvars, pvars, mvars, dvars, gvars, cvars, ivars, avars, rvars, hvars, evars, svars>>

\* HestonModel::greeks: numerical_greeks, whose first statement calls price.
FacadeHestonGreeks ==
    /\ f_calls < MaxCalls
    /\ \E option \in {o \in FacadeOptions : o.kind = "vanilla"} :
          f_last' = Call("HestonModel", "greeks", option,
                         IF HestonSupports(option) THEN "greeks" ELSE StyleError, 0)
    /\ f_calls' = f_calls + 1
    /\ UNCHANGED <<f_mc, f_lsmc, tvars, lvars, bvars, pvars, mvars, dvars, gvars, cvars, ivars, avars, rvars, hvars, evars, svars>>

\* BlackScholesModel::price
FacadeBsPrice ==
    /\ f_calls < MaxCalls
    /\ \E option \in {o \in FacadeOptions : o.kind = "vanilla"} :
          f_last' = Call("BlackScholesModel", "price", option,
                         IF BsSupports(option) THEN "number" ELSE StyleError, 0)
    /\ f_calls' = f_calls + 1
    /\ UNCHANGED <<f_mc, f_lsmc, tvars, lvars, bvars, pvars, mvars, dvars, gvars, cvars, ivars, avars, rvars, hvars, evars, svars>>

\* BlackScholesModel::greeks: the analytic formulas, no check of the style.
FacadeBsGreeks ==
    /\ f_calls < MaxCalls
    /\ \E option \in {o \in FacadeOptions : o.kind = "vanilla"} :
          f_last' = Call("BlackScholesModel", "greeks", option, "greeks", 0)
    /\ f_calls' = f_calls + 1
    /\ UNCHANGED <<f_mc, f_lsmc, tvars, lvars, bvars, pvars, mvars, dvars, gvars, cvars, ivars, avars, rvars, hvars, evars, svars>>

\* BlackScholesModel::implied_volatility: each iteration starts with price();
\* with no iteration at all the call ends in the non-convergence error.
FacadeBsImpliedVolatility ==
    /\ f_calls < MaxCalls
    /\ \E option \in {o \in FacadeOptions : o.kind = "vanilla"} :
          \E max_iterations \in {0, 100} :
              \E numeric \in {"number", "runtime_error: vega too small",
                              "runtime_error: did not converge"} :
                  f_last' = Call("BlackScholesModel", "implied_volatility", option,
                                 IF max_iterations = 0 THEN "runtime_error: did not converge"
                                 ELSE IF BsSupports(option) THEN numeric
                                 ELSE StyleError, 0)
    /\ f_calls' = f_calls + 1
    /\ UNCHANGED <<f_mc, f_lsmc, tvars, lvars, bvars, pvars, mvars, dvars, gvars, cvars, ivars, avars, rvars, hvars, evars, svars>>

FacadeNext ==
    \/ FacadeMcPrice
    \/ FacadeLsmcPrice
    \/ FacadeHestonPrice
    \/ FacadeHestonSemiAnalytical
    \/ FacadeHestonMonteCarlo
    \/ FacadeHestonGreeks
    \/ FacadeBsPrice
    \/ FacadeBsGreeks
    \/ FacadeBsImpliedVolatility

(***************************************************************************)
(* MonteCarloModel::price_barrier with BarrierOption.  A path point is     *)
(* S0 times a product of exp(drift + diffusion * dW) factors, so each      *)
(* point after the first is drawn from the positive levels.                *)
(***************************************************************************)
MaxBarrierPaths == 2

BarrierType == {"UP_AND_IN", "UP_AND_OUT", "DOWN_AND_IN", "DOWN_AND_OUT"}
BarrierSpots == {RInt(1), RInt(2), RInt(3)}
BarrierTimesteps == {1, 2}

\* BarrierOption's constructor: style EUROPEAN, level > 0, rebate >= 0.
BarrierOptions ==
    [type : OptionType, style : {"EUROPEAN"}, strike : {RInt(2)},
     barrier_type : BarrierType, barrier_level : BarrierSpots,
     rebate : {Zero, One}]
BarrierConfigs == [num_paths : 1..MaxBarrierPaths, num_timesteps : BarrierTimesteps]
BarrierInputs == [spot : {RInt(2)}, discount : {One, Rat(1, 2)}]

\* BarrierOption::is_knocked
is_knocked_strict(option, spot_price) ==
    IF option.barrier_type \in {"UP_AND_IN", "UP_AND_OUT"}
    THEN RLess(option.barrier_level, spot_price)
    ELSE RLess(spot_price, option.barrier_level)
is_knocked(option, spot_price) ==
    IF option.barrier_type \in {"UP_AND_IN", "UP_AND_OUT"}
    THEN RLeq(option.barrier_level, spot_price)
    ELSE RLeq(spot_price, option.barrier_level)

\* BarrierOption::is_knock_in, is_knock_out
is_knock_in_up_only(barrier_type) == barrier_type = "UP_AND_IN"
is_knock_in(barrier_type) == barrier_type = "UP_AND_IN" \/ barrier_type = "DOWN_AND_IN"
is_knock_out(barrier_type) == barrier_type = "UP_AND_OUT" \/ barrier_type = "DOWN_AND_OUT"

\* simulate_path: path[0] = S0, then num_steps points, one normal each.
BarrierPaths(S0, num_steps) ==
    {path \in [1..(num_steps + 1) -> BarrierSpots] : path[1] = S0}

\* for (double S : path) if (option.is_knocked(S)) { barrier_hit = true; break; }
RECURSIVE BarrierHit(_, _, _)
BarrierHit(option, path, k) ==
    IF k > Len(path) THEN FALSE
    ELSE IF is_knocked(option, path[k]) THEN TRUE
    ELSE BarrierHit(option, path, k + 1)

\* the if/else on is_knock_in() and barrier_hit
BarrierPayoffAtFirstStep(option, path, barrier_hit) ==
    IF is_knock_in(option.barrier_type)
    THEN IF barrier_hit THEN payoff(option, path[2]) ELSE option.rebate
    ELSE IF barrier_hit THEN option.rebate ELSE payoff(option, path[2])
BarrierPayoff(option, path, barrier_hit) ==
    IF is_knock_in(option.barrier_type)
    THEN IF barrier_hit THEN payoff(option, path[Len(path)]) ELSE option.rebate
    ELSE IF barrier_hit THEN option.rebate ELSE payoff(option, path[Len(path)])

BarrierIdle ==
    /\ b_pc = "idle"
    /\ b_opt = [type |-> "CALL", style |-> "EUROPEAN", strike |-> One,
                barrier_type |-> "UP_AND_IN", barrier_level |-> One, rebate |-> Zero]
    /\ b_cfg = [num_paths |-> 1, num_timesteps |-> 1]
    /\ b_in = [spot |-> One, discount |-> One]
    /\ b_i = 0
    /\ b_path = <<>>
    /\ b_hit = FALSE
    /\ b_payoff = Zero
    /\ b_sum = Zero
    /\ b_rng = 0
    /\ b_result = NoResult

\* Entry of price_barrier: sum = 0.0, i = 0.
BarrierCall ==
    /\ b_pc = "loop"
    /\ b_opt \in BarrierOptions
    /\ b_cfg \in BarrierConfigs
    /\ b_in \in BarrierInputs
    /\ b_i = 0
    /\ b_path = <<>>
    /\ b_hit = FALSE
    /\ b_payoff = Zero
    /\ b_sum = Zero
    /\ b_rng = 0
    /\ b_result = NoResult

\* One iteration of the loop over paths.
BarrierPath ==
    /\ b_pc = "loop"
    /\ b_i < b_cfg.num_paths
    /\ \E path \in BarrierPaths(b_in.spot, b_cfg.num_timesteps) :
          LET barrier_hit == BarrierHit(b_opt, path, 1)
              pay == BarrierPayoff(b_opt, path, barrier_hit)
          IN  /\ b_path' = path
              /\ b_hit' = barrier_hit
              /\ b_payoff' = pay
              /\ b_sum' = RAdd(b_sum, pay)
    /\ b_rng' = b_rng + b_cfg.num_timesteps
    /\ b_i' = b_i + 1
    /\ UNCHANGED <<b_pc, b_opt, b_cfg, b_in, b_result, tvars, lvars, fvars, pvars, mvars, dvars, gvars, cvars, ivars, avars, rvars, hvars, evars, svars>>

\* return exp(-r * T) * sum / num_paths
BarrierReturn ==
    /\ b_pc = "loop"
    /\ b_i = b_cfg.num_paths
    /\ b_result' = Returned(RMul(b_in.discount, RDiv(b_sum, RInt(b_cfg.num_paths))))
    /\ b_pc' = "done"
    /\ UNCHANGED <<b_opt, b_cfg, b_in, b_i, b_path, b_hit, b_payoff, b_sum, b_rng,
                   tvars, lvars, fvars, pvars, mvars, dvars, gvars, cvars, ivars, avars, rvars, hvars, evars, svars>>

BarrierNext ==
    \/ BarrierPath
    \/ BarrierReturn

(***************************************************************************)
(* Instances constructed with the same seed draw the same normals, hence   *)
(* simulate the same paths.  One step is the i-th loop iteration of each.  *)
(***************************************************************************)
\* The barrier type with the same direction and the other knock kind.
Partner(barrier_type) ==
    CASE barrier_type = "UP_AND_IN" -> "UP_AND_OUT"
      [] barrier_type = "UP_AND_OUT" -> "UP_AND_IN"
      [] barrier_type = "DOWN_AND_IN" -> "DOWN_AND_OUT"
      [] barrier_type = "DOWN_AND_OUT" -> "DOWN_AND_IN"

PartnerOption(option) == [option EXCEPT !.barrier_type = Partner(option.barrier_type)]

Triple(x, y, z) == [a |-> x, b |-> y, v |-> z]

\* double mean_payoff = sum / config_.num_paths; return std::exp(-r * T) * mean_payoff;
DiscountedMean(discount, sum, num_paths) == RMul(discount, RDiv(sum, RInt(num_paths)))

PairIdle ==
    /\ p_pc = "idle"
    /\ p_opt = [type |-> "CALL", style |-> "EUROPEAN", strike |-> One,
                barrier_type |-> "UP_AND_IN", barrier_level |-> One, rebate |-> Zero]
    /\ p_cfg = [num_paths |-> 1, num_timesteps |-> 1]
    /\ p_in = [spot |-> One, discount |-> One]
    /\ p_i = 0
    /\ p_path = <<>>
    /\ p_hit = [a |-> FALSE, b |-> FALSE]
    /\ p_pay = Triple(Zero, Zero, Zero)
    /\ p_sum = Triple(Zero, Zero, Zero)
    /\ p_result = NoResult

PairCall ==
    /\ p_pc = "loop"
    /\ p_opt \in BarrierOptions
    /\ p_cfg \in BarrierConfigs
    /\ p_in \in BarrierInputs
    /\ p_i = 0
    /\ p_path = <<>>
    /\ p_hit = [a |-> FALSE, b |-> FALSE]
    /\ p_pay = Triple(Zero, Zero, Zero)
    /\ p_sum = Triple(Zero, Zero, Zero)
    /\ p_result = NoResult

\* Iteration i of price_barrier (twice) and of the vanilla loop of price.
PairPath ==
    /\ p_pc = "loop"
    /\ p_i < p_cfg.num_paths
    /\ \E path \in BarrierPaths(p_in.spot, p_cfg.num_timesteps) :
          LET hitA == BarrierHit(p_opt, path, 1)
              hitB == BarrierHit(PartnerOption(p_opt), path, 1)
              payA == BarrierPayoff(p_opt, path, hitA)
              payB == BarrierPayoff(PartnerOption(p_opt), path, hitB)
              payV == payoff(p_opt, path[Len(path)])
          IN  /\ p_path' = path
              /\ p_hit' = [a |-> hitA, b |-> hitB]
              /\ p_pay' = Triple(payA, payB, payV)
              /\ p_sum' = Triple(RAdd(p_sum.a, payA), RAdd(p_sum.b, payB),
                                 RAdd(p_sum.v, payV))
    /\ p_i' = p_i + 1
    /\ UNCHANGED <<p_pc, p_opt, p_cfg, p_in, p_result, tvars, lvars, fvars, bvars, mvars, dvars, gvars, cvars, ivars, avars, rvars, hvars, evars, svars>>

PairReturn ==
    /\ p_pc = "loop"
    /\ p_i = p_cfg.num_paths
    /\ p_result' = Returned(Triple(
           DiscountedMean(p_in.discount, p_sum.a, p_cfg.num_paths),
           DiscountedMean(p_in.discount, p_sum.b, p_cfg.num_paths),
           DiscountedMean(p_in.discount, p_sum.v, p_cfg.num_paths)))
    /\ p_pc' = "done"
    /\ UNCHANGED <<p_opt, p_cfg, p_in, p_i, p_path, p_hit, p_pay, p_sum,
                   tvars, lvars, fvars, bvars, mvars, dvars, gvars, cvars, ivars, avars, rvars, hvars, evars, svars>>

PairNext ==
    \/ PairPath
    \/ PairReturn

(***************************************************************************)
(* MonteCarloModel::price, the vanilla branch, with the normal shocks      *)
(* explicit.  A shock dW is -1, 0 or 1; exp(drift) and exp(diffusion) are  *)
(* rational inputs, so a step multiplies by exp(drift) * exp(diffusion)^dW.*)
(***************************************************************************)
MaxMcPaths == 3

Shocks == {-1, 0, 1}
McTimesteps == {1, 2}
McOptions == [type : OptionType, style : {"EUROPEAN"}, strike : {RInt(2)}]
McConfigs == [num_paths : 1..MaxMcPaths, num_timesteps : McTimesteps,
              use_antithetic : BOOLEAN]
McInputs == [spot : {RInt(2)}, exp_drift : {One, Rat(1, 2)}, exp_diffusion : {RInt(2)},
             discount : {One, Rat(1, 2)}]

\* std::exp(drift + diffusion * dW)
StepFactor(in, dW) ==
    RMul(in.exp_drift, IF dW >= 0 THEN RPow(in.exp_diffusion, dW)
                       ELSE RDiv(One, RPow(in.exp_diffusion, -dW)))

\* simulate_path: path[0] = S0; path[i] = path[i-1] * exp(drift + diffusion*dW)
RECURSIVE SimulatePoint(_, _, _)
SimulatePoint(in, shocks, i) ==
    IF i = 0 THEN in.spot
    ELSE RMul(SimulatePoint(in, shocks, i - 1), StepFactor(in, shocks[i]))

simulate_path(in, shocks) == [i \in 0..Len(shocks) |-> SimulatePoint(in, shocks, i)]

\* size_t total_paths = use_antithetic ? num_paths / 2 : num_paths
TotalPaths(cfg) == IF cfg.use_antithetic THEN cfg.num_paths \div 2 ELSE cfg.num_paths

\* double actual_paths = use_antithetic ? num_paths : total_paths
Divisor(cfg) == IF cfg.use_antithetic THEN cfg.num_paths ELSE TotalPaths(cfg)

McIdle ==
    /\ m_pc = "idle"
    /\ m_opt = [type |-> "CALL", style |-> "EUROPEAN", strike |-> One]
    /\ m_cfg = [num_paths |-> 1, num_timesteps |-> 1, use_antithetic |-> FALSE]
    /\ m_in = [spot |-> One, exp_drift |-> One, exp_diffusion |-> One, discount |-> One]
    /\ m_i = 0
    /\ m_shocks = <<>>
    /\ m_pay = Zero
    /\ m_anti = NoResult
    /\ m_sum = Zero
    /\ m_terms = 0
    /\ m_div = 0
    /\ m_rng = 0
    /\ m_result = NoResult

\* Entry of price for an option that passed the style check and is neither
\* Asian nor barrier: sum = 0.0.
McCall ==
    /\ m_pc = "loop"
    /\ m_opt \in McOptions
    /\ m_cfg \in McConfigs
    /\ m_in \in McInputs
    /\ m_i = 0
    /\ m_shocks = <<>>
    /\ m_pay = Zero
    /\ m_anti = NoResult
    /\ m_sum = Zero
    /\ m_terms = 0
    /\ m_div = 0
    /\ m_rng = 0
    /\ m_result = NoResult

\* One iteration: simulate a path, add its payoff; with use_antithetic add
\* the same payoff once more (the "placeholder").
McPath ==
    /\ m_pc = "loop"
    /\ m_i < TotalPaths(m_cfg)
    /\ \E shocks \in [1..m_cfg.num_timesteps -> Shocks] :
          LET path == simulate_path(m_in, shocks)
              pay == payoff(m_opt, path[m_cfg.num_timesteps])
          IN  /\ m_shocks' = shocks
              /\ m_pay' = pay
              /\ IF m_cfg.use_antithetic
                 THEN /\ m_anti' = Returned(pay)
                      /\ m_sum' = RAdd(RAdd(m_sum, pay), pay)
                      /\ m_terms' = m_terms + 2
                 ELSE /\ m_anti' = NoResult
                      /\ m_sum' = RAdd(m_sum, pay)
                      /\ m_terms' = m_terms + 1
    /\ m_rng' = m_rng + m_cfg.num_timesteps
    /\ m_i' = m_i + 1
    /\ UNCHANGED <<m_pc, m_opt, m_cfg, m_in, m_div, m_result,
                   tvars, lvars, fvars, bvars, pvars, dvars, gvars, cvars, ivars, avars, rvars, hvars, evars, svars>>

\* mean_payoff = sum / actual_paths; return exp(-r*T) * mean_payoff
McReturn ==
    /\ m_pc = "loop"
    /\ m_i = TotalPaths(m_cfg)
    /\ m_div' = Divisor(m_cfg)
    /\ m_result' = Returned(RMul(m_in.discount, RDiv(m_sum, RInt(Divisor(m_cfg)))))
    /\ m_pc' = "done"
    /\ UNCHANGED <<m_opt, m_cfg, m_in, m_i, m_shocks, m_pay, m_anti, m_sum, m_terms, m_rng,
                   tvars, lvars, fvars, bvars, pvars, dvars, gvars, cvars, ivars, avars, rvars, hvars, evars, svars>>

McNext ==
    \/ McPath
    \/ McReturn

(***************************************************************************)
(* RandomGenerator: a std::mt19937 and a std::normal_distribution.  The    *)
(* engine's output is a function of the seed and of how much was consumed. *)
(* The distribution may produce normals in pairs and keep the second one   *)
(* for the next call (the standard leaves this to the library, and gives   *)
(* reset() to drop it); set_seed reseeds the engine only.                  *)
(***************************************************************************)
MaxDetCalls == 3

Seeds == {0, 1}

\* The k-th normal the engine seeded with seed yields.
Stream(seed, k) == ((seed + k) % 3) - 1

\* RandomGenerator(seed)
SeededGenerator(seed) == [seed |-> seed, pos |-> 0, saved |-> NoResult]

\* RandomGenerator::set_seed: generator_.seed(seed); normal_dist_ is not reset.
set_seed(rng, seed) == [rng EXCEPT !.seed = seed, !.pos = 0]

\* RandomGenerator::next_normal: the value returned and the state left.
next_normal(caches, rng) ==
    IF rng.saved # NoResult
    THEN [value |-> rng.saved[1], rng |-> [rng EXCEPT !.saved = NoResult]]
    ELSE IF caches
    THEN [value |-> Stream(rng.seed, rng.pos),
          rng |-> [rng EXCEPT !.pos = @ + 2,
                              !.saved = Returned(Stream(rng.seed, rng.pos + 1))]]
    ELSE [value |-> Stream(rng.seed, rng.pos), rng |-> [rng EXCEPT !.pos = @ + 1]]

\* n successive calls of next_normal: the normals and the state left.
RECURSIVE DrawNormals(_, _, _)
DrawNormals(caches, rng, n) ==
    IF n = 0 THEN [normals |-> <<>>, rng |-> rng]
    ELSE LET head == DrawNormals(caches, rng, n - 1)
             last == next_normal(caches, head.rng)
         IN  [normals |-> Append(head.normals, last.value), rng |-> last.rng]

DetConfigs == [num_paths : {1, 2}, num_timesteps : {1}, use_antithetic : {FALSE},
               seed : Seeds]
DetInputs == [spot : {RInt(2)}, exp_drift : {One}, exp_diffusion : {RInt(2)},
              discount : {One}]

\* MonteCarloModel::price on a vanilla option, from the normals it draws:
\* path i uses the normals (i * num_timesteps + 1)..((i + 1) * num_timesteps).
PathShocks(cfg, normals, i) ==
    [j \in 1..cfg.num_timesteps |-> normals[i * cfg.num_timesteps + j]]

RECURSIVE SumOfPayoffs(_, _, _, _, _)
SumOfPayoffs(cfg, in, option, normals, n) ==
    IF n = 0 THEN Zero
    ELSE LET pay == payoff(option, simulate_path(in, PathShocks(cfg, normals, n - 1))
                                       [cfg.num_timesteps])
         IN  RAdd(SumOfPayoffs(cfg, in, option, normals, n - 1),
                  IF cfg.use_antithetic THEN RAdd(pay, pay) ELSE pay)

\* One call of price on an instance: the price and the instance afterwards.
PriceCall(caches, model, in, option) ==
    LET drawn == DrawNormals(caches, model.rng,
                             TotalPaths(model.cfg) * model.cfg.num_timesteps)
    IN  [price |-> RMul(in.discount,
                        RDiv(SumOfPayoffs(model.cfg, in, option, drawn.normals,
                                          TotalPaths(model.cfg)),
                             RInt(Divisor(model.cfg)))),
         model |-> [model EXCEPT !.rng = drawn.rng]]

\* MonteCarloModel(config): config_(config), rng_(config.seed)
Constructed(cfg) == [cfg |-> cfg, rng |-> SeededGenerator(cfg.seed)]

\* MonteCarloModel::set_config: config_ = config; rng_.set_seed(config.seed)
set_config(model, cfg) == [cfg |-> cfg, rng |-> set_seed(model.rng, cfg.seed)]

DetIdle ==
    /\ d_caches = FALSE
    /\ d_x = Constructed([num_paths |-> 1, num_timesteps |-> 1,
                          use_antithetic |-> FALSE, seed |-> 0])
    /\ d_y = d_x
    /\ d_phase = "idle"
    /\ d_calls = 0
    /\ d_prices = NoResult

\* Two instances are constructed; with equal configurations they are
\* comparable from the start.
DetConstructed ==
    /\ d_caches \in BOOLEAN
    /\ \E cx \in DetConfigs, cy \in DetConfigs :
          /\ d_x = Constructed(cx)
          /\ d_y = Constructed(cy)
          /\ d_phase = IF cx = cy THEN "equal" ELSE "apart"
    /\ d_calls = 0
    /\ d_prices = NoResult

\* x.price(option, market) while y is left alone.
DetPriceFirst ==
    /\ d_phase = "apart"
    /\ d_calls < MaxDetCalls
    /\ \E in \in DetInputs, option \in McOptions :
          d_x' = PriceCall(d_caches, d_x, in, option).model
    /\ d_calls' = d_calls + 1
    /\ UNCHANGED <<d_caches, d_y, d_phase, d_prices,
                   tvars, lvars, fvars, bvars, pvars, mvars, gvars, cvars, ivars, avars, rvars, hvars, evars, svars>>

\* x.set_config(y.config()): x is brought to y's configuration.
DetSetConfig ==
    /\ d_phase = "apart"
    /\ d_y.rng = SeededGenerator(d_y.cfg.seed)
    /\ d_x' = set_config(d_x, d_y.cfg)
    /\ d_phase' = "equal"
    /\ UNCHANGED <<d_caches, d_y, d_calls, d_prices,
                   tvars, lvars, fvars, bvars, pvars, mvars, gvars, cvars, ivars, avars, rvars, hvars, evars, svars>>

\* The same price call on both instances.
DetPriceBoth ==
    /\ d_phase = "equal"
    /\ d_calls < MaxDetCalls
    /\ \E in \in DetInputs, option \in McOptions :
          LET cx == PriceCall(d_caches, d_x, in, option)
              cy == PriceCall(d_caches, d_y, in, option)
          IN  /\ d_x' = cx.model
              /\ d_y' = cy.model
              /\ d_prices' = Returned([x |-> cx.price, y |-> cy.price])
    /\ d_calls' = d_calls + 1
    /\ UNCHANGED <<d_caches, d_phase,
                   tvars, lvars, fvars, bvars, pvars, mvars, gvars, cvars, ivars, avars, rvars, hvars, evars, svars>>

DetNext ==
    \/ DetPriceFirst
    \/ DetSetConfig
    \/ DetPriceBoth

(***************************************************************************)
(* PricingModel::numerical_greeks: six calls of the engine's own price.    *)
(* A call is recorded by what it was given: the product kind of the option *)
(* object, its style and expiry, and which market input was bumped.        *)
(***************************************************************************)
MaxExpiryDays == 3

GreeksEngines == {"BinomialTreeModel", "TrinomialTreeModel", "MonteCarloModel",
                  "LSMCModel", "HestonModel", "BlackScholesDigitalModel"}
GreeksKinds == {"vanilla", "asian", "barrier", "digital"}

\* The options an engine's price accepts; the product classes other than
\* Option are constructed EUROPEAN.
GreeksOptions(engine) ==
    {o \in [kind : GreeksKinds, style : {"EUROPEAN", "AMERICAN"},
            expiry_days : 1..MaxExpiryDays] :
        /\ o.kind # "vanilla" => o.style = "EUROPEAN"
        /\ engine = "LSMCModel" => (o.kind = "vanilla" /\ o.style = "AMERICAN")
        /\ engine \in {"MonteCarloModel", "HestonModel"} => o.style = "EUROPEAN"
        /\ engine = "MonteCarloModel" => o.kind \in {"vanilla", "asian", "barrier"}
        /\ engine = "BlackScholesDigitalModel" => o.kind = "digital"
        /\ engine \in {"BinomialTreeModel", "TrinomialTreeModel", "HestonModel"}
              => o.kind = "vanilla"}

Priced(option, bumped) ==
    [kind |-> option.kind, style |-> option.style, expiry_days |-> option.expiry_days,
     bumped |-> bumped]

\* Option theta_option(option.strike(), option.expiry() - time_bump,
\*                     option.type(), option.style()): an object of class Option.
theta_option(option) ==
    [kind |-> "vanilla", style |-> option.style, expiry_days |-> option.expiry_days - 1]

\* Option::validate on the expiry (time_bump is one day).
ExpiryValid(option) == option.expiry_days > 0

\* The engine's price: BlackScholesDigitalModel::price throws unless the object
\* is a DigitalOption; the other engines value what they were given.
PriceOutcome(engine, option) ==
    IF engine = "BlackScholesDigitalModel" /\ option.kind # "digital"
    THEN "invalid_argument: not a DigitalOption"
    ELSE "number"

GreeksIdle ==
    /\ g_pc = "idle"
    /\ g_engine = ""
    /\ g_opt = [kind |-> "vanilla", style |-> "EUROPEAN", expiry_days |-> 1]
    /\ g_priced = <<>>
    /\ g_error = ""

GreeksCall ==
    /\ g_pc = "base"
    /\ g_engine \in GreeksEngines
    /\ g_opt \in GreeksOptions(g_engine)
    /\ g_priced = <<>>
    /\ g_error = ""

\* A price call on the option itself with one market input bumped (or none).
GreeksMarketStep(bumped, next) ==
    /\ g_priced' = Append(g_priced, Priced(g_opt, bumped))
    /\ IF PriceOutcome(g_engine, g_opt) = "number"
       THEN g_pc' = next /\ g_error' = g_error
       ELSE g_pc' = "failed" /\ g_error' = PriceOutcome(g_engine, g_opt)
    /\ UNCHANGED <<g_engine, g_opt, tvars, lvars, fvars, bvars, pvars, mvars, dvars, cvars, ivars, avars, rvars, hvars, evars, svars>>

\* double base_price = price(option, market_data);
GreeksBase ==
    /\ g_pc = "base"
    /\ GreeksMarketStep("none", "spot_up")

\* double price_up = price(option, spot_up);
GreeksSpotUp ==
    /\ g_pc = "spot_up"
    /\ GreeksMarketStep("spot_up", "spot_down")

\* double price_down = price(option, spot_down);  then delta and gamma
GreeksSpotDown ==
    /\ g_pc = "spot_down"
    /\ GreeksMarketStep("spot_down", "vega")

\* double vega_price = price(option, vol_up);
GreeksVega ==
    /\ g_pc = "vega"
    /\ GreeksMarketStep("vol_up", "theta")

\* theta_option is constructed and priced with the unbumped market data.
GreeksTheta ==
    /\ g_pc = "theta"
    /\ IF ~ExpiryValid(theta_option(g_opt))
       THEN /\ g_pc' = "failed"
            /\ g_error' = "invalid_argument: expiry"
            /\ g_priced' = g_priced
       ELSE /\ g_priced' = Append(g_priced, Priced(theta_option(g_opt), "none"))
            /\ IF PriceOutcome(g_engine, theta_option(g_opt)) = "number"
               THEN g_pc' = "rho" /\ g_error' = g_error
               ELSE /\ g_pc' = "failed"
                    /\ g_error' = PriceOutcome(g_engine, theta_option(g_opt))
    /\ UNCHANGED <<g_engine, g_opt, tvars, lvars, fvars, bvars, pvars, mvars, dvars, cvars, ivars, avars, rvars, hvars, evars, svars>>

\* double rho_price = price(option, rate_up);  return g;
GreeksRho ==
    /\ g_pc = "rho"
    /\ GreeksMarketStep("rate_up", "done")

GreeksNext ==
    \/ GreeksBase
    \/ GreeksSpotUp
    \/ GreeksSpotDown
    \/ GreeksVega
    \/ GreeksTheta
    \/ GreeksRho

(***************************************************************************)
(* The constructors of MarketData and Option.  A double is a number or one *)
(* of the IEEE specials; comparisons with NaN are false.                   *)
(***************************************************************************)
Num(k) == [cls |-> "num", v |-> k]
PosInf == [cls |-> "inf", v |-> 1]
NegInf == [cls |-> "inf", v |-> -1]
NaN == [cls |-> "nan", v |-> 0]
Doubles == {NegInf, Num(-1), Num(0), Num(1), PosInf, NaN}

\* std::isfinite(x)
IsFinite(x) == x.cls = "num"

\* x <= 0.0
LessThanZero(x) == x.cls # "nan" /\ x.v < 0
LeqZero(x) == x.cls # "nan" /\ x.v <= 0

MarketDataArgs == [spot : Doubles, rate : Doubles, volatility : Doubles, dividend : Doubles]
OptionArgs == [strike : Doubles, expiry : Doubles, type : OptionType, style : OptionStyle]

\* MarketData::validate: the first failing test throws.
MarketDataValidate(a) ==
    IF LeqZero(a.spot) \/ ~IsFinite(a.spot)
    THEN "invalid_argument: Spot price must be positive and finite"
    ELSE IF LeqZero(a.volatility) \/ ~IsFinite(a.volatility)
    THEN "invalid_argument: Volatility must be positive and finite"
    ELSE IF ~IsFinite(a.rate) THEN "invalid_argument: Interest rate must be finite"
    ELSE IF ~IsFinite(a.dividend) THEN "invalid_argument: Dividend yield must be finite"
    ELSE ""

\* Option::validate
OptionValidate(a) ==
    IF ~IsFinite(a.strike) \/ LeqZero(a.strike)
    THEN "invalid_argument: Strike price must be positive and finite"
    ELSE IF ~IsFinite(a.expiry) \/ LeqZero(a.expiry)
    THEN "invalid_argument: Expiry must be positive and finite"
    ELSE ""

CtorIdle ==
    /\ c_pc = "idle"
    /\ c_class = ""
    /\ c_args = [spot |-> Num(1), rate |-> Num(0), volatility |-> Num(1), dividend |-> Num(0)]
    /\ c_error = ""

CtorCall ==
    /\ c_pc = "call"
    /\ \/ c_class = "MarketData" /\ c_args \in MarketDataArgs
       \/ c_class = "Option" /\ c_args \in OptionArgs
    /\ c_error = ""

\* MarketData(s, r, vol, div): the fields are set, then validate() runs.
ConstructMarketData ==
    /\ c_pc = "call"
    /\ c_class = "MarketData"
    /\ c_error' = MarketDataValidate(c_args)
    /\ c_pc' = IF MarketDataValidate(c_args) = "" THEN "constructed" ELSE "thrown"
    /\ UNCHANGED <<c_class, c_args, tvars, lvars, fvars, bvars, pvars, mvars, dvars, gvars, ivars, avars, rvars, hvars, evars, svars>>

\* Option(strike, expiry, type, style): the fields are set, then validate() runs.
ConstructOption ==
    /\ c_pc = "call"
    /\ c_class = "Option"
    /\ c_error' = OptionValidate(c_args)
    /\ c_pc' = IF OptionValidate(c_args) = "" THEN "constructed" ELSE "thrown"
    /\ UNCHANGED <<c_class, c_args, tvars, lvars, fvars, bvars, pvars, mvars, dvars, gvars, ivars, avars, rvars, hvars, evars, svars>>

CtorNext ==
    \/ ConstructMarketData
    \/ ConstructOption

(***************************************************************************)
(* BlackScholesModel::implied_volatility.  The Black-Scholes price and     *)
(* vega at sigma are norm_cdf / exp expressions; each iteration's          *)
(* price - market_price and vega are drawn from rational values.           *)
(***************************************************************************)
MaxIterations == 3

PriceDiffs == {Rat(-1, 1), Rat(-1, 4), Rat(-1, 8), Zero, Rat(1, 8), Rat(1, 4), Rat(1, 1)}
Vegas == {Zero, Rat(1, 1), Rat(4, 1)}
IvArgs == [initial_guess : {Rat(1, 2)}, tolerance : {Rat(1, 4)},
           max_iterations : 0..MaxIterations]
IvOptions == [style : OptionStyle]

\* std::abs(diff) < tolerance
WithinToleranceOrEqual(diff, tolerance) == RLeq(RAbs(diff), tolerance)
WithinTolerance(diff, tolerance) == RLess(RAbs(diff), tolerance)

\* std::abs(vega) < 1e-10, on values that are 0 or far from 0
VegaTooSmall(vega) == vega.n = 0

\* sigma = sigma - diff / vega; if (sigma <= 0.0) sigma = initial_guess * 0.5;
NewtonStep(sigma, diff, vega, initial_guess) ==
    LET next == RSub(sigma, RDiv(diff, vega))
    IN  IF RLeq(next, Zero) THEN RMul(initial_guess, Rat(1, 2)) ELSE next

IvIdle ==
    /\ i_pc = "idle"
    /\ i_opt = [style |-> "EUROPEAN"]
    /\ i_args = [initial_guess |-> One, tolerance |-> One, max_iterations |-> 0]
    /\ i_iter = 0
    /\ i_sigma = Zero
    /\ i_diff = Zero
    /\ i_at = Zero
    /\ i_error = ""
    /\ i_result = NoResult

\* double sigma = initial_guess; i = 0
IvCall ==
    /\ i_pc = "loop"
    /\ i_opt \in IvOptions
    /\ i_args \in IvArgs
    /\ i_iter = 0
    /\ i_sigma = i_args.initial_guess
    /\ i_diff = Zero
    /\ i_at = Zero
    /\ i_error = ""
    /\ i_result = NoResult

\* An iteration whose price(option, temp_data) throws on the style.
IvStyleThrow ==
    /\ i_pc = "loop"
    /\ i_iter < i_args.max_iterations
    /\ ~BsSupports(i_opt)
    /\ i_error' = StyleError
    /\ i_pc' = "thrown"
    /\ UNCHANGED <<i_opt, i_args, i_iter, i_sigma, i_diff, i_at, i_result>>
    /\ UNCHANGED <<tvars, lvars, fvars, bvars, pvars, mvars, dvars, gvars, cvars, avars, rvars, hvars, evars, svars>>

\* An iteration that meets the tolerance: return sigma.
IvReturn ==
    /\ i_pc = "loop"
    /\ i_iter < i_args.max_iterations
    /\ BsSupports(i_opt)
    /\ \E diff \in PriceDiffs :
          /\ WithinTolerance(diff, i_args.tolerance)
          /\ i_diff' = diff
    /\ i_at' = i_sigma
    /\ i_result' = Returned(i_sigma)
    /\ i_pc' = "returned"
    /\ UNCHANGED <<i_opt, i_args, i_iter, i_sigma, i_error>>
    /\ UNCHANGED <<tvars, lvars, fvars, bvars, pvars, mvars, dvars, gvars, cvars, avars, rvars, hvars, evars, svars>>

\* An iteration that misses the tolerance and finds the vega too small.
IvVegaThrow ==
    /\ i_pc = "loop"
    /\ i_iter < i_args.max_iterations
    /\ BsSupports(i_opt)
    /\ \E diff \in PriceDiffs, vega \in Vegas :
          /\ ~WithinTolerance(diff, i_args.tolerance)
          /\ VegaTooSmall(vega)
          /\ i_diff' = diff
    /\ i_at' = i_sigma
    /\ i_error' = "runtime_error: Vega too small"
    /\ i_pc' = "thrown"
    /\ UNCHANGED <<i_opt, i_args, i_iter, i_sigma, i_result>>
    /\ UNCHANGED <<tvars, lvars, fvars, bvars, pvars, mvars, dvars, gvars, cvars, avars, rvars, hvars, evars, svars>>

\* An iteration that misses the tolerance and takes the Newton step.
IvStep ==
    /\ i_pc = "loop"
    /\ i_iter < i_args.max_iterations
    /\ BsSupports(i_opt)
    /\ \E diff \in PriceDiffs, vega \in Vegas :
          /\ ~WithinTolerance(diff, i_args.tolerance)
          /\ ~VegaTooSmall(vega)
          /\ i_diff' = diff
          /\ i_sigma' = NewtonStep(i_sigma, diff, vega, i_args.initial_guess)
    /\ i_at' = i_sigma
    /\ i_iter' = i_iter + 1
    /\ UNCHANGED <<i_pc, i_opt, i_args, i_error, i_result>>
    /\ UNCHANGED <<tvars, lvars, fvars, bvars, pvars, mvars, dvars, gvars, cvars, avars, rvars, hvars, evars, svars>>

\* The loop ran out: throw "Implied volatility did not converge".
IvNoConvergence ==
    /\ i_pc = "loop"
    /\ i_iter >= i_args.max_iterations
    /\ i_error' = "runtime_error: did not converge"
    /\ i_pc' = "thrown"
    /\ UNCHANGED <<i_opt, i_args, i_iter, i_sigma, i_diff, i_at, i_result>>
    /\ UNCHANGED <<tvars, lvars, fvars, bvars, pvars, mvars, dvars, gvars, cvars, avars, rvars, hvars, evars, svars>>

IvNext ==
    \/ IvStyleThrow
    \/ IvReturn
    \/ IvVegaThrow
    \/ IvStep
    \/ IvNoConvergence

(***************************************************************************)
(* MonteCarloModel::price_asian with AsianOption.  Doubles here are the    *)
(* rationals up to DoubleMax and +infinity, which a product reaches when   *)
(* it exceeds DoubleMax; std::pow(product, 1/n) is the n-th root rounded   *)
(* down to a multiple of 1/RootScale.                                      *)
(***************************************************************************)
MaxObservations == 3

DoubleMax == 30
RootScale == 4
Infinity == [n |-> 1, d |-> 0]

AveragingType == {"ARITHMETIC", "GEOMETRIC"}
AsianSpots == {RInt(1), RInt(2), RInt(3)}

\* AsianOption's constructor: style EUROPEAN.
AsianOptions ==
    [type : OptionType, style : {"EUROPEAN"}, strike : {RInt(2)},
     averaging_type : AveragingType, num_observations : 1..MaxObservations]
AsianConfigs == [num_paths : {1, 2}]
AsianInputs == [spot : {RInt(2)}, discount : {One}]

\* a + b in doubles
DAdd(a, b) == IF a = Infinity \/ b = Infinity THEN Infinity ELSE RAdd(a, b)

\* a * b in doubles, both positive
DMul(a, b) ==
    IF a = Infinity \/ b = Infinity THEN Infinity
    ELSE IF RLess(RInt(DoubleMax), RMul(a, b)) THEN Infinity ELSE RMul(a, b)

\* a <= b in doubles
DLeq(a, b) ==
    IF b = Infinity THEN TRUE ELSE IF a = Infinity THEN FALSE ELSE RLeq(a, b)

\* std::pow(product, 1.0 / n) for product >= 0
NthRoot(product, n) ==
    IF product = Infinity THEN Infinity
    ELSE LET k == CHOOSE j \in 0..(RootScale * DoubleMax) :
                      /\ RLeq(RPow(Rat(j, RootScale), n), product)
                      /\ RLess(product, RPow(Rat(j + 1, RootScale), n))
         IN  Rat(k, RootScale)

\* double product = 1.0; for (double obs : observations) product *= obs;
RECURSIVE ProductOf(_)
ProductOf(observations) ==
    IF observations = <<>> THEN One
    ELSE DMul(ProductOf(SubSeq(observations, 1, Len(observations) - 1)),
              observations[Len(observations)])

\* AsianOption::calculate_average
calculate_average(averaging_type, observations) ==
    IF observations = <<>> THEN Zero
    ELSE IF averaging_type = "ARITHMETIC"
    THEN RDiv(SumSeq(observations), RInt(Len(observations)))
    ELSE NthRoot(ProductOf(observations), Len(observations))

\* AsianOption::payoff
AsianPayoff(option, average_price) ==
    IF average_price = Infinity
    THEN IF option.type = "CALL" THEN Infinity ELSE Zero
    ELSE payoff(option, average_price)

\* simulate_path(S0, market_data, T, num_steps): num_steps + 1 points, the
\* first is S0, each later one S[i-1] * exp(drift + diffusion * dW).
AsianPaths(S0, num_steps) ==
    {path \in [1..(num_steps + 1) -> AsianSpots] : path[1] = S0}

AsianIdle ==
    /\ a_pc = "idle"
    /\ a_opt = [type |-> "CALL", style |-> "EUROPEAN", strike |-> One,
                averaging_type |-> "ARITHMETIC", num_observations |-> 1]
    /\ a_cfg = [num_paths |-> 1]
    /\ a_in = [spot |-> One, discount |-> One]
    /\ a_i = 0
    /\ a_path = <<>>
    /\ a_count = 0
    /\ a_avg = Zero
    /\ a_pay = Zero
    /\ a_sum = Zero
    /\ a_result = NoResult

AsianCall ==
    /\ a_pc = "loop"
    /\ a_opt \in AsianOptions
    /\ a_cfg \in AsianConfigs
    /\ a_in \in AsianInputs
    /\ a_i = 0
    /\ a_path = <<>>
    /\ a_count = 0
    /\ a_avg = Zero
    /\ a_pay = Zero
    /\ a_sum = Zero
    /\ a_result = NoResult

\* One iteration: path = simulate_path(S0, market, T, option.num_observations());
\* avg_price = option.calculate_average(path); sum += option.payoff(avg_price)
AsianPath ==
    /\ a_pc = "loop"
    /\ a_i < a_cfg.num_paths
    /\ \E path \in AsianPaths(a_in.spot, a_opt.num_observations) :
          LET avg == calculate_average(a_opt.averaging_type, path)
              pay == AsianPayoff(a_opt, avg)
          IN  /\ a_path' = path
              /\ a_count' = Len(path)
              /\ a_avg' = avg
              /\ a_pay' = pay
              /\ a_sum' = DAdd(a_sum, pay)
    /\ a_i' = a_i + 1
    /\ UNCHANGED <<a_pc, a_opt, a_cfg, a_in, a_result>>
    /\ UNCHANGED <<tvars, lvars, fvars, bvars, pvars, mvars, dvars, gvars, cvars, ivars, rvars, hvars, evars, svars>>

\* return exp(-r * T) * sum / num_paths
AsianReturn ==
    /\ a_pc = "loop"
    /\ a_i = a_cfg.num_paths
    /\ a_result' = Returned(IF a_sum = Infinity THEN Infinity
                            ELSE RMul(a_in.discount, RDiv(a_sum, RInt(a_cfg.num_paths))))
    /\ a_pc' = "done"
    /\ UNCHANGED <<a_opt, a_cfg, a_in, a_i, a_path, a_count, a_avg, a_pay, a_sum>>
    /\ UNCHANGED <<tvars, lvars, fvars, bvars, pvars, mvars, dvars, gvars, cvars, ivars, rvars, hvars, evars, svars>>

AsianNext ==
    \/ AsianPath
    \/ AsianReturn

(***************************************************************************)
(* TrinomialTreeModel::price (src/models/binomial_tree.cpp).  exp(dx) and  *)
(* df are rational inputs; the probabilities are computed from             *)
(* a = nu*dt/dx, since sigma^2*dt/dx^2 = 1/3.  num_steps_ and i are        *)
(* size_t, so i - num_steps_ is an unsigned difference.                    *)
(***************************************************************************)
MaxTriSteps == 2

TriOptions == [type : OptionType, style : OptionStyle, strike : {RInt(4)}]
TriInputs ==
    [option : TriOptions, spot : {RInt(2), RInt(4), RInt(8)}, exp_dx : {RInt(2)},
     a : {Zero}, df : {One, Rat(1, 2)}, num_steps : 1..MaxTriSteps]

\* pu, pm, pd of lines 115-117
TriProbabilities(in) ==
    LET base == RAdd(Rat(1, 3), RMul(in.a, in.a))
    IN  [pu |-> RMul(Rat(1, 2), RAdd(base, in.a)),
         pm |-> RSub(One, base),
         pd |-> RMul(Rat(1, 2), RSub(base, in.a))]

\* int j = i - num_steps_: the unsigned difference converted to int.
SignedOffset(i, num_steps) == i - num_steps

\* (i - num_steps_) as it enters the multiplication by dx: the size_t
\* difference, which is 2^64 - (num_steps_ - i) when i < num_steps_.
UnsignedOffset(i, num_steps) ==
    IF i >= num_steps THEN [wrapped |-> FALSE, value |-> i - num_steps]
    ELSE [wrapped |-> TRUE, value |-> num_steps - i]

\* S * std::exp(j * dx) for a signed j
TriSpot(in, j) ==
    IF j >= 0 THEN RMul(in.spot, RPow(in.exp_dx, j))
    ELSE RDiv(in.spot, RPow(in.exp_dx, -j))

\* S * std::exp((i - num_steps_) * dx): exp of about 2^64 * dx overflows.
TriNodeSpot(in, offset) ==
    IF offset.wrapped THEN Infinity ELSE TriSpot(in, offset.value)

\* option.payoff on a double that may be +inf
PayoffAt(option, spot) ==
    IF spot = Infinity THEN IF option.type = "CALL" THEN Infinity ELSE Zero
    ELSE payoff(option, spot)

\* p * v for a probability p > 0 and a value that may be +inf
Weighted(p, v) == IF v = Infinity THEN Infinity ELSE RMul(p, v)

\* df * (pu * values[i + 1] + pm * values[i] + pd * values[i - 1])
TriContinuation(in, values, i) ==
    LET pr == TriProbabilities(in)
    IN  Weighted(in.df, DAdd(DAdd(Weighted(pr.pu, values[i + 1]),
                                  Weighted(pr.pm, values[i])),
                             Weighted(pr.pd, values[i - 1])))

\* The terminal loop: values[i] = payoff(S * exp(j * dx)), j = i - N.
TriTerminalValues(in) ==
    [i \in 0..(2 * in.num_steps) |->
        payoff(in.option, TriSpot(in, SignedOffset(i, in.num_steps)))]

NoNode == [step |-> -1, i |-> -1, offset |-> [wrapped |-> FALSE, value |-> 0],
           S_node |-> Zero, continuation |-> Zero]

TriIdle ==
    /\ r_pc = "idle"
    /\ r_in = [option |-> [type |-> "CALL", style |-> "EUROPEAN", strike |-> One],
               spot |-> One, exp_dx |-> One, a |-> Zero, df |-> One, num_steps |-> 0]
    /\ r_values = [i \in 0..0 |-> Zero]
    /\ r_step = 0
    /\ r_i = 0
    /\ r_node = NoNode
    /\ r_result = NoResult

\* std::vector<double> values(n_nodes)
TriCall ==
    /\ r_pc = "terminal"
    /\ r_in \in TriInputs
    /\ r_values = [i \in 0..(2 * r_in.num_steps) |-> Zero]
    /\ r_step = 0
    /\ r_i = 0
    /\ r_node = NoNode
    /\ r_result = NoResult

\* The terminal loop, then step = num_steps_ - 1 and i = start.
TriTerminal ==
    /\ r_pc = "terminal"
    /\ r_values' = TriTerminalValues(r_in)
    /\ r_step' = r_in.num_steps - 1
    /\ r_i' = r_in.num_steps - (r_in.num_steps - 1)
    /\ r_pc' = "backward"
    /\ UNCHANGED <<r_in, r_node, r_result>>
    /\ UNCHANGED <<tvars, lvars, fvars, bvars, pvars, mvars, dvars, gvars, cvars, ivars, avars, hvars, evars, svars>>

\* One iteration of the inner loop; after i = end the next step begins.
TriNode ==
    /\ r_pc = "backward"
    /\ r_step >= 0
    /\ LET offset == UnsignedOffset(r_i, r_in.num_steps)
           S_node == TriNodeSpot(r_in, offset)
           continuation == TriContinuation(r_in, r_values, r_i)
           value == IF r_in.option.style = "AMERICAN"
                    THEN RMax(continuation, PayoffAt(r_in.option, S_node))
                    ELSE continuation
           updated == [r_values EXCEPT ![r_i] = value]
       IN  /\ r_values' = updated
           /\ r_node' = [step |-> r_step, i |-> r_i, offset |-> offset,
                         S_node |-> S_node, continuation |-> continuation]
           /\ IF r_i < r_in.num_steps + r_step
              THEN /\ r_i' = r_i + 1
                   /\ UNCHANGED r_step
              ELSE /\ r_step' = r_step - 1
                   /\ r_i' = r_in.num_steps - (r_step - 1)
    /\ UNCHANGED <<r_pc, r_in, r_result>>
    /\ UNCHANGED <<tvars, lvars, fvars, bvars, pvars, mvars, dvars, gvars, cvars, ivars, avars, hvars, evars, svars>>

\* return values[num_steps_]
TriReturn ==
    /\ r_pc = "backward"
    /\ r_step < 0
    /\ r_result' = Returned(r_values[r_in.num_steps])
    /\ r_pc' = "done"
    /\ UNCHANGED <<r_in, r_values, r_step, r_i, r_node>>
    /\ UNCHANGED <<tvars, lvars, fvars, bvars, pvars, mvars, dvars, gvars, cvars, ivars, avars, hvars, evars, svars>>

TriNext ==
    \/ TriTerminal
    \/ TriNode
    \/ TriReturn

(***************************************************************************)
(* HestonModel::price (src/models/heston.cpp).  Doubles are rationals,     *)
(* +inf, -inf and NaN, with the IEEE rules for the special values.  The    *)
(* characteristic function is followed through its divisions by            *)
(* sigma * sigma; where its value is finite, the complex root, logarithm,  *)
(* exponential and the trapezoid sum are drawn inputs.                     *)
(***************************************************************************)
NegInfinity == [n |-> -1, d |-> 0]
NotANumber == [n |-> 0, d |-> 0]
IsFiniteDouble(x) == x.d # 0
IsNaN(x) == x = NotANumber
Sign(x) == IF x.n > 0 THEN 1 ELSE IF x.n < 0 THEN -1 ELSE 0
SignedInfinity(s) == [n |-> s, d |-> 0]

\* a * b: inf * 0 is NaN
XMul(a, b) ==
    IF IsNaN(a) \/ IsNaN(b) THEN NotANumber
    ELSE IF IsFiniteDouble(a) /\ IsFiniteDouble(b) THEN RMul(a, b)
    ELSE IF Sign(a) = 0 \/ Sign(b) = 0 THEN NotANumber
    ELSE SignedInfinity(Sign(a) * Sign(b))

\* a + b: inf + (-inf) is NaN
XAdd(a, b) ==
    IF IsNaN(a) \/ IsNaN(b) THEN NotANumber
    ELSE IF IsFiniteDouble(a) /\ IsFiniteDouble(b) THEN RAdd(a, b)
    ELSE IF ~IsFiniteDouble(a) /\ ~IsFiniteDouble(b)
         THEN IF a = b THEN a ELSE NotANumber
    ELSE IF IsFiniteDouble(a) THEN b ELSE a

XNeg(a) == [n |-> -a.n, d |-> a.d]
XSub(a, b) == XAdd(a, XNeg(b))

\* a / b: x / 0 is +-inf for x # 0, and 0 / 0 and inf / inf are NaN
XDiv(a, b) ==
    IF IsNaN(a) \/ IsNaN(b) THEN NotANumber
    ELSE IF IsFiniteDouble(a) /\ IsFiniteDouble(b)
         THEN IF Sign(b) # 0 THEN RDiv(a, b)
              ELSE IF Sign(a) = 0 THEN NotANumber ELSE SignedInfinity(Sign(a))
    ELSE IF ~IsFiniteDouble(a) /\ ~IsFiniteDouble(b) THEN NotANumber
    ELSE IF IsFiniteDouble(a) THEN Zero
    ELSE SignedInfinity(Sign(a) * (IF Sign(b) < 0 THEN -1 ELSE 1))

HestonParamsSet ==
    [kappa : {RInt(2)}, theta : {Rat(1, 4)}, sigma : {Zero, Rat(1, 2)},
     rho : {Zero, Rat(-1, 2)}, v0 : {Rat(1, 4)}]

Probabilities == {Rat(1, 4), Rat(3, 4)}

\* d, log and exp are the drawn values of the complex root, the logarithm
\* and exp(-d * T) where they are not determined by sigma = 0; P[j] is the
\* drawn 0.5 + integrate(..., j) / M_PI for a finite integrand.
HestonInputs ==
    [option : [type : OptionType, style : OptionStyle, strike : {RInt(4)}],
     spot : {RInt(4)}, T : {One}, dq : {One}, dr : {One, Rat(1, 2)},
     params : HestonParamsSet,
     d : {RInt(3)}, log : {One}, exp : {Rat(1, 2)},
     P : [1..2 -> Probabilities]]

\* d = sqrt(pow(rho*sigma*u*i - kappa, 2.0) + sigma*sigma*(u*i + u*u)):
\* sqrt(kappa^2) = kappa when sigma = 0 (kappa > 0).
HestonRoot(in) == IF in.params.sigma = Zero THEN in.params.kappa ELSE in.d

\* std::log(x): log(1) = 0
LogOf(in, x) == IF x = One THEN Zero ELSE IF IsFiniteDouble(x) THEN in.log ELSE NotANumber

\* The real part of C + D * v; (r - q)*u*i*T and i*u*log(S) are finite.
CharacteristicExponent(in) ==
    LET p == in.params
        sigma2 == RMul(p.sigma, p.sigma)
        d == HestonRoot(in)
        numerator == RSub(RSub(p.kappa, RMul(p.rho, p.sigma)), d)
        g == XDiv(numerator, RAdd(RSub(p.kappa, RMul(p.rho, p.sigma)), d))
        gexp == XMul(g, in.exp)
        C == XMul(XDiv(RMul(p.kappa, p.theta), sigma2),
                  XSub(XMul(numerator, in.T),
                       XMul(RInt(2), LogOf(in, XDiv(XSub(One, gexp), XSub(One, g))))))
        D == XDiv(XMul(XDiv(numerator, sigma2), XSub(One, in.exp)), XSub(One, gexp))
    IN  XAdd(C, XMul(D, p.v0))

\* 0.5 + integrate(S, K, T, r, q, j) / M_PI: the sum of
\* (exp(-i*phi*log(K)) * exp(exponent) / (i*phi)).real() over the grid.
\* exp(-inf + ...) is 0; a NaN or +inf exponent leaves a NaN real part.
HestonProbability(in, j) ==
    LET e == CharacteristicExponent(in)
    IN  IF IsFiniteDouble(e) THEN in.P[j]
        ELSE IF e = NegInfinity THEN Rat(1, 2)
        ELSE NotANumber

\* price_semi_analytical, lines 28-32
price_semi_analytical(in, P) ==
    IF in.option.type = "CALL"
    THEN XSub(XMul(RMul(in.spot, in.dq), P[1]),
              XMul(RMul(in.option.strike, in.dr), P[2]))
    ELSE XSub(XMul(RMul(in.option.strike, in.dr), XSub(One, P[2])),
              XMul(RMul(in.spot, in.dq), XSub(One, P[1])))

HestonIdle ==
    /\ h_pc = "idle"
    /\ h_in = [option |-> [type |-> "CALL", style |-> "EUROPEAN", strike |-> One],
               spot |-> One, T |-> One, dq |-> One, dr |-> One,
               params |-> [kappa |-> One, theta |-> One, sigma |-> One,
                           rho |-> Zero, v0 |-> One],
               d |-> One, log |-> One, exp |-> One, P |-> [j \in 1..2 |-> Zero]]
    /\ h_j = 0
    /\ h_P = [j \in 1..2 |-> Zero]
    /\ h_result = NoResult
    /\ h_error = ""

HestonCall ==
    /\ h_pc = "check"
    /\ h_in \in HestonInputs
    /\ h_j = 0
    /\ h_P = [j \in 1..2 |-> Zero]
    /\ h_result = NoResult
    /\ h_error = ""

\* option.style() != OptionStyle::EUROPEAN: throw
HestonRejectStyle ==
    /\ h_pc = "check"
    /\ ~HestonSupports(h_in.option)
    /\ h_error' = StyleError
    /\ h_pc' = "failed"
    /\ UNCHANGED <<h_in, h_j, h_P, h_result>>
    /\ UNCHANGED <<tvars, lvars, fvars, bvars, pvars, mvars, dvars, gvars, cvars, ivars, avars, rvars, evars, svars>>

HestonAccept ==
    /\ h_pc = "check"
    /\ HestonSupports(h_in.option)
    /\ h_j' = 1
    /\ h_pc' = "integrate"
    /\ UNCHANGED <<h_in, h_P, h_result, h_error>>
    /\ UNCHANGED <<tvars, lvars, fvars, bvars, pvars, mvars, dvars, gvars, cvars, ivars, avars, rvars, evars, svars>>

\* double Pj = 0.5 + integrate(S, K, T, r, q, j) / M_PI
HestonIntegrate ==
    /\ h_pc = "integrate"
    /\ h_P' = [h_P EXCEPT ![h_j] = HestonProbability(h_in, h_j)]
    /\ IF h_j = 1 THEN h_j' = 2 /\ h_pc' = "integrate"
                  ELSE h_j' = h_j /\ h_pc' = "return"
    /\ UNCHANGED <<h_in, h_result, h_error>>
    /\ UNCHANGED <<tvars, lvars, fvars, bvars, pvars, mvars, dvars, gvars, cvars, ivars, avars, rvars, evars, svars>>

HestonReturn ==
    /\ h_pc = "return"
    /\ h_result' = Returned(price_semi_analytical(h_in, h_P))
    /\ h_pc' = "done"
    /\ UNCHANGED <<h_in, h_j, h_P, h_error>>
    /\ UNCHANGED <<tvars, lvars, fvars, bvars, pvars, mvars, dvars, gvars, cvars, ivars, avars, rvars, evars, svars>>

HestonNext ==
    \/ HestonRejectStyle
    \/ HestonAccept
    \/ HestonIntegrate
    \/ HestonReturn

(***************************************************************************)
(* price and greeks on two MonteCarloModel instances, one thread each      *)
(* (models/pricing_model.hpp, models/monte_carlo.hpp).  A step is one      *)
(* evaluation of price: a price call, or one of the six evaluations of     *)
(* numerical_greeks, so that calls on the two instances interleave.        *)
(***************************************************************************)
MaxEngineCalls == 1

Engines == 1..2
GreeksPrices == <<"base", "spot_up", "spot_down", "vega", "theta", "rho">>

EngineMarkets == [spot : {RInt(2)}, exp_drift : {One}, exp_diffusion : {RInt(2)},
                  discount : {One}]
EngineConfigs ==
    {c \in DetConfigs : c.num_paths = c.seed + 1}

\* The market data an evaluation of price receives: the caller's object, or
\* the MarketData numerical_greeks constructs from it (spot, volatility and
\* rate bumps; for theta the shorter expiry of theta_option).
EvaluationMarket(market, kind) ==
    CASE kind = "spot_up" -> [market EXCEPT !.spot = RMul(@, Rat(3, 2))]
      [] kind = "spot_down" -> [market EXCEPT !.spot = RMul(@, Rat(1, 2))]
      [] kind = "vega" -> [market EXCEPT !.exp_diffusion = RMul(@, RInt(2))]
      [] kind = "theta" -> [market EXCEPT !.exp_diffusion = RMul(@, Rat(1, 2))]
      [] kind = "rho" -> [market EXCEPT !.discount = RMul(@, Rat(1, 2))]
      [] OTHER -> market

\* rng_ is a member of the instance
EngineRngShared(models, k) == models[1].rng
EngineRng(models, k) == models[k].rng

\* One evaluation of price on instance k: the price and the instance after.
Evaluate(caches, models, k, market, option, kind) ==
    PriceCall(caches, [cfg |-> models[k].cfg, rng |-> EngineRng(models, k)],
              EvaluationMarket(market, kind), option)

CallsMade(log) == Cardinality({i \in 1..Len(log) : log[i] \in {"price", "base"}})

EngineIdle ==
    /\ e_caches = FALSE
    /\ e_models = [k \in Engines |->
                      Constructed([num_paths |-> 1, num_timesteps |-> 1,
                                   use_antithetic |-> FALSE, seed |-> 0])]
    /\ e_market = [spot |-> One, exp_drift |-> One, exp_diffusion |-> One,
                   discount |-> One]
    /\ e_option = [type |-> "CALL", style |-> "EUROPEAN", strike |-> One]
    /\ e_pos = [k \in Engines |-> -1]
    /\ e_log = [k \in Engines |-> <<>>]
    /\ e_prices = [k \in Engines |-> <<>>]

EngineConstructed ==
    /\ e_caches \in BOOLEAN
    /\ \E c \in [Engines -> EngineConfigs] : e_models = [k \in Engines |-> Constructed(c[k])]
    /\ e_market \in EngineMarkets
    /\ e_option \in McOptions
    /\ e_pos = [k \in Engines |-> 0]
    /\ e_log = [k \in Engines |-> <<>>]
    /\ e_prices = [k \in Engines |-> <<>>]

\* The evaluation of kind `kind` on instance k.
EngineEvaluation(k, kind) ==
    LET call == Evaluate(e_caches, e_models, k, e_market, e_option, kind)
    IN  /\ e_models' = [e_models EXCEPT ![k] = call.model]
        /\ e_log' = [e_log EXCEPT ![k] = Append(@, kind)]
        /\ e_prices' = [e_prices EXCEPT ![k] = Append(@, call.price)]

\* models[k].price(option, market)
EnginePrice ==
    /\ \E k \in Engines :
          /\ e_pos[k] = 0
          /\ CallsMade(e_log[k]) < MaxEngineCalls
          /\ EngineEvaluation(k, "price")
    /\ UNCHANGED <<e_caches, e_market, e_option, e_pos>>
    /\ UNCHANGED <<tvars, lvars, fvars, bvars, pvars, mvars, dvars, gvars, cvars, ivars, avars, rvars, hvars, svars>>

\* models[k].greeks(option, market): base_price = price(option, market_data)
EngineGreeksBase ==
    /\ \E k \in Engines :
          /\ e_pos[k] = 0
          /\ CallsMade(e_log[k]) < MaxEngineCalls
          /\ EngineEvaluation(k, "base")
          /\ e_pos' = [e_pos EXCEPT ![k] = 1]
    /\ UNCHANGED <<e_caches, e_market, e_option>>
    /\ UNCHANGED <<tvars, lvars, fvars, bvars, pvars, mvars, dvars, gvars, cvars, ivars, avars, rvars, hvars, svars>>

\* ... and the five evaluations on bumped copies; after rho greeks returns.
EngineGreeksBump ==
    /\ \E k \in Engines :
          /\ e_pos[k] >= 1
          /\ EngineEvaluation(k, GreeksPrices[e_pos[k] + 1])
          /\ e_pos' = [e_pos EXCEPT ![k] = IF @ = 5 THEN 0 ELSE @ + 1]
    /\ UNCHANGED <<e_caches, e_market, e_option>>
    /\ UNCHANGED <<tvars, lvars, fvars, bvars, pvars, mvars, dvars, gvars, cvars, ivars, avars, rvars, hvars, svars>>

EngineNext ==
    \/ EnginePrice
    \/ EngineGreeksBase
    \/ EngineGreeksBump

(***************************************************************************)
(* HestonModel::simulate_path (src/models/heston.cpp) and                  *)
(* RandomGenerator::correlated_normals (math/random.hpp).  The normals     *)
(* are drawn from Shocks; std::sqrt is exact where the root is a small     *)
(* fraction, rounded down to the grid 1/RootScale elsewhere, and NaN for   *)
(* a negative argument.                                                    *)
(***************************************************************************)
MaxHestonSteps == 2

SmallFractions == {Rat(a, b) : a \in 0..6, b \in 1..5}

\* std::sqrt(x)
SqrtOf(x) ==
    IF ~IsFiniteDouble(x) THEN x
    ELSE IF RLess(x, Zero) THEN NotANumber
    ELSE IF \E r \in SmallFractions : RMul(r, r) = x
         THEN CHOOSE r \in SmallFractions : RMul(r, r) = x
    ELSE NthRoot(x, 2)

\* correlated_normals(correlation) from the two normals z1, z2 it draws
correlated_normals(correlation, z1, z2) ==
    [w1 |-> RInt(z1),
     w2 |-> XAdd(XMul(correlation, RInt(z1)),
                 XMul(SqrtOf(RSub(One, RMul(correlation, correlation))), RInt(z2)))]

\* double v_prev = std::max(v_path[i - 1], 0.0)
VariancePrevUnfloored(v) == v
VariancePrev(v) == RMax(v, Zero)

\* One iteration of the loop from S_path[i - 1], v_path[i - 1] and the pair.
HestonStep(in, S_before, v_before, Z1, Z2) ==
    LET p == in.params
        v_prev == VariancePrev(v_before)
        root == SqrtOf(XMul(v_prev, in.dt))
        drift == XMul(XMul(p.kappa, XSub(p.theta, v_prev)), in.dt)
        dv == XAdd(drift, XMul(XMul(p.sigma, root), Z2))
        dS == XAdd(XMul(XMul(in.growth, S_before), in.dt),
                   XMul(XMul(S_before, root), Z1))
    IN  [v_prev |-> v_prev, root |-> root, drift |-> drift,
         v |-> XAdd(v_prev, dv), S |-> XAdd(S_before, dS)]

SimParams ==
    [kappa : {One}, theta : {Rat(1, 4)}, sigma : {One, RInt(2)},
     rho : {Zero, Rat(3, 5), RInt(-1)}, v0 : {Rat(1, 4), One}]
SimInputs ==
    [S0 : {RInt(4)}, params : SimParams, dt : {One}, growth : {Zero, Rat(1, 4)},
     num_steps : 1..MaxHestonSteps]

NoStep == [z1 |-> 0, z2 |-> 0, Z1 |-> Zero, Z2 |-> Zero, v_prev |-> Zero,
           root |-> Zero, drift |-> Zero]

SimIdle ==
    /\ s_pc = "idle"
    /\ s_in = [S0 |-> One, params |-> [kappa |-> One, theta |-> One, sigma |-> One,
                                       rho |-> Zero, v0 |-> One],
               dt |-> One, growth |-> Zero, num_steps |-> 0]
    /\ s_i = 0
    /\ s_S = [j \in 0..0 |-> Zero]
    /\ s_v = [j \in 0..0 |-> Zero]
    /\ s_draws = 0
    /\ s_step = NoStep

\* S_path(num_steps + 1), v_path(num_steps + 1); S_path[0] = S0; v_path[0] = v0
SimCall ==
    /\ s_pc = "loop"
    /\ s_in \in SimInputs
    /\ s_i = 1
    /\ s_S = [j \in 0..s_in.num_steps |-> IF j = 0 THEN s_in.S0 ELSE Zero]
    /\ s_v = [j \in 0..s_in.num_steps |-> IF j = 0 THEN s_in.params.v0 ELSE Zero]
    /\ s_draws = 0
    /\ s_step = NoStep

\* One iteration of the loop: the pair is drawn, then v_path[i] and S_path[i].
SimStep ==
    /\ s_pc = "loop"
    /\ s_i <= s_in.num_steps
    /\ \E z1 \in Shocks, z2 \in Shocks :
          LET pair == correlated_normals(s_in.params.rho, z1, z2)
              step == HestonStep(s_in, s_S[s_i - 1], s_v[s_i - 1], pair.w1, pair.w2)
          IN  /\ s_v' = [s_v EXCEPT ![s_i] = step.v]
              /\ s_S' = [s_S EXCEPT ![s_i] = step.S]
              /\ s_step' = [z1 |-> z1, z2 |-> z2, Z1 |-> pair.w1, Z2 |-> pair.w2,
                            v_prev |-> step.v_prev, root |-> step.root,
                            drift |-> step.drift]
    /\ s_draws' = s_draws + 2
    /\ s_i' = s_i + 1
    /\ UNCHANGED <<s_pc, s_in>>
    /\ UNCHANGED <<tvars, lvars, fvars, bvars, pvars, mvars, dvars, gvars, cvars, ivars, avars, rvars, hvars, evars>>

\* return {S_path, v_path}
SimReturn ==
    /\ s_pc = "loop"
    /\ s_i > s_in.num_steps
    /\ s_pc' = "done"
    /\ UNCHANGED <<s_in, s_i, s_S, s_v, s_draws, s_step>>
    /\ UNCHANGED <<tvars, lvars, fvars, bvars, pvars, mvars, dvars, gvars, cvars, ivars, avars, rvars, hvars, evars>>

SimNext ==
    \/ SimStep
    \/ SimReturn

(***************************************************************************)
(* Specifications: one engine call each.                                   *)
(***************************************************************************)
TreeInit == TreeCall /\ LsmcIdle /\ FacadeIdle /\ BarrierIdle /\ PairIdle /\ McIdle /\ DetIdle /\ GreeksIdle /\ CtorIdle /\ IvIdle /\ AsianIdle /\ TriIdle /\ HestonIdle /\ EngineIdle /\ SimIdle
SpecTree == TreeInit /\ [][TreeNext]_vars

LsmcInit == LsmcCall /\ TreeIdle /\ FacadeIdle /\ BarrierIdle /\ PairIdle /\ McIdle /\ DetIdle /\ GreeksIdle /\ CtorIdle /\ IvIdle /\ AsianIdle /\ TriIdle /\ HestonIdle /\ EngineIdle /\ SimIdle
SpecLsmc == LsmcInit /\ [][LsmcNext]_vars

FacadeInit == FacadeConstructed /\ TreeIdle /\ LsmcIdle /\ BarrierIdle /\ PairIdle /\ McIdle /\ DetIdle /\ GreeksIdle /\ CtorIdle /\ IvIdle /\ AsianIdle /\ TriIdle /\ HestonIdle /\ EngineIdle /\ SimIdle
SpecFacade == FacadeInit /\ [][FacadeNext]_vars

BarrierInit == BarrierCall /\ TreeIdle /\ LsmcIdle /\ FacadeIdle /\ PairIdle /\ McIdle /\ DetIdle /\ GreeksIdle /\ CtorIdle /\ IvIdle /\ AsianIdle /\ TriIdle /\ HestonIdle /\ EngineIdle /\ SimIdle
SpecBarrier == BarrierInit /\ [][BarrierNext]_vars

PairInit == PairCall /\ TreeIdle /\ LsmcIdle /\ FacadeIdle /\ BarrierIdle /\ McIdle /\ DetIdle /\ GreeksIdle /\ CtorIdle /\ IvIdle /\ AsianIdle /\ TriIdle /\ HestonIdle /\ EngineIdle /\ SimIdle
SpecPair == PairInit /\ [][PairNext]_vars

McInit == McCall /\ TreeIdle /\ LsmcIdle /\ FacadeIdle /\ BarrierIdle /\ PairIdle /\ DetIdle /\ GreeksIdle /\ CtorIdle /\ IvIdle /\ AsianIdle /\ TriIdle /\ HestonIdle /\ EngineIdle /\ SimIdle
SpecMc == McInit /\ [][McNext]_vars

DetInit == DetConstructed /\ TreeIdle /\ LsmcIdle /\ FacadeIdle /\ BarrierIdle /\ PairIdle /\ McIdle /\ GreeksIdle /\ CtorIdle /\ IvIdle /\ AsianIdle /\ TriIdle /\ HestonIdle /\ EngineIdle /\ SimIdle
SpecDet == DetInit /\ [][DetNext]_vars

GreeksInit == GreeksCall /\ TreeIdle /\ LsmcIdle /\ FacadeIdle /\ BarrierIdle /\ PairIdle /\ McIdle /\ DetIdle /\ CtorIdle /\ IvIdle /\ AsianIdle /\ TriIdle /\ HestonIdle /\ EngineIdle /\ SimIdle
SpecGreeks == GreeksInit /\ [][GreeksNext]_vars

CtorInit == CtorCall /\ TreeIdle /\ LsmcIdle /\ FacadeIdle /\ BarrierIdle /\ PairIdle /\ McIdle /\ DetIdle /\ GreeksIdle /\ IvIdle /\ AsianIdle /\ TriIdle /\ HestonIdle /\ EngineIdle /\ SimIdle
SpecCtor == CtorInit /\ [][CtorNext]_vars

IvInit == IvCall /\ TreeIdle /\ LsmcIdle /\ FacadeIdle /\ BarrierIdle /\ PairIdle /\ McIdle /\ DetIdle /\ GreeksIdle /\ CtorIdle /\ AsianIdle /\ TriIdle /\ HestonIdle /\ EngineIdle /\ SimIdle
SpecIv == IvInit /\ [][IvNext]_vars

AsianInit == AsianCall /\ TreeIdle /\ LsmcIdle /\ FacadeIdle /\ BarrierIdle /\ PairIdle /\ McIdle /\ DetIdle /\ GreeksIdle /\ CtorIdle /\ IvIdle /\ TriIdle /\ HestonIdle /\ EngineIdle /\ SimIdle
SpecAsian == AsianInit /\ [][AsianNext]_vars

TriInit == TriCall /\ TreeIdle /\ LsmcIdle /\ FacadeIdle /\ BarrierIdle /\ PairIdle /\ McIdle /\ DetIdle /\ GreeksIdle /\ CtorIdle /\ IvIdle /\ AsianIdle /\ HestonIdle /\ EngineIdle /\ SimIdle
SpecTri == TriInit /\ [][TriNext]_vars

HestonInit == HestonCall /\ TreeIdle /\ LsmcIdle /\ FacadeIdle /\ BarrierIdle /\ PairIdle /\ McIdle /\ DetIdle /\ GreeksIdle /\ CtorIdle /\ IvIdle /\ AsianIdle /\ TriIdle /\ EngineIdle /\ SimIdle
SpecHeston == HestonInit /\ [][HestonNext]_vars

EngineInit == EngineConstructed /\ TreeIdle /\ LsmcIdle /\ FacadeIdle /\ BarrierIdle /\ PairIdle /\ McIdle /\ DetIdle /\ GreeksIdle /\ CtorIdle /\ IvIdle /\ AsianIdle /\ TriIdle /\ HestonIdle /\ SimIdle
SpecEngine == EngineInit /\ [][EngineNext]_vars

SimInit == SimCall /\ TreeIdle /\ LsmcIdle /\ FacadeIdle /\ BarrierIdle /\ PairIdle /\ McIdle /\ DetIdle /\ GreeksIdle /\ CtorIdle /\ IvIdle /\ AsianIdle /\ TriIdle /\ HestonIdle /\ EngineIdle
SpecSim == SimInit /\ [][SimNext]_vars

(***************************************************************************)
(* Claims about the binomial lattice.                                      *)
(***************************************************************************)
\* The lattice recursion with every layer kept apart: the value of node i of
\* layer s from the two children of layer s + 1 and the node's own spot.
RECURSIVE LayeredValue(_, _, _)
LayeredValue(in, s, i) ==
    LET d == RDiv(One, in.u)
        p == RDiv(RSub(in.growth, d), RSub(in.u, d))
        spot == RMul(RMul(in.spot, RPow(in.u, s - i)), RPow(d, i))
    IN  IF s = in.num_steps THEN payoff(in.option, spot)
        ELSE LET up == LayeredValue(in, s + 1, i)
                 down == LayeredValue(in, s + 1, i + 1)
                 continuation == RMul(in.df, RAdd(RMul(p, up), RMul(RSub(One, p), down)))
             IN  IF RLess(continuation, payoff(in.option, spot))
                 THEN payoff(in.option, spot) ELSE continuation

LayeredContinuation(in, s, i) ==
    LET d == RDiv(One, in.u)
        p == RDiv(RSub(in.growth, d), RSub(in.u, d))
    IN  RMul(in.df, RAdd(RMul(p, LayeredValue(in, s + 1, i)),
                         RMul(RSub(One, p), LayeredValue(in, s + 1, i + 1))))

\* C1: in price_american, while the inner loop stands at (step, i), the nodes
\* 0..i-1 of the array hold max(continuation, exercise) of layer `step`
\* computed from the children of layer step+1, the nodes i..step+1 still hold
\* layer step+1, and the returned price is the value of the root.
C1_AmericanNodeIsMaxOfContinuationAndExercise ==
    (t_in.option.style = "AMERICAN") =>
        /\ (t_pc = "induct") =>
              \A k \in 0..(t_step + 1) :
                  t_values[k] = IF t_step >= 0 /\ k < t_i
                                THEN LayeredValue(t_in, t_step, k)
                                ELSE LayeredValue(t_in, t_step + 1, k)
        /\ (t_pc = "done") => t_result = Returned(LayeredValue(t_in, 0, 0))

\* A node above the root (layer 1 or later) where immediate exercise beat a
\* positive continuation value and was stored.
C1_Witness ==
    /\ t_in.option.style = "AMERICAN"
    /\ t_pc = "induct"
    /\ t_step >= 1
    /\ t_i >= 1
    /\ RLess(LayeredContinuation(t_in, t_step, t_i - 1), t_values[t_i - 1])
    /\ RLess(Zero, LayeredContinuation(t_in, t_step, t_i - 1))

\* C3: the price returned for the AMERICAN option is at least the price
\* price_european returns for the same contract, market data and step count,
\* and at least the intrinsic value payoff(spot).
C3_AmericanAtLeastEuropeanAndIntrinsic ==
    (t_pc = "done" /\ t_in.option.style = "AMERICAN") =>
        /\ RLeq(price_european(t_in, t_params), t_result[1])
        /\ RLeq(payoff(t_in.option, t_in.spot), t_result[1])

\* An American price strictly above the European price of the same contract.
C3_Witness ==
    /\ t_pc = "done"
    /\ t_in.option.style = "AMERICAN"
    /\ RLess(price_european(t_in, t_params), t_result[1])
    /\ RLess(Zero, payoff(t_in.option, t_in.spot))

\* C4: price fails exactly when p = (growth - d)/(u - d) is below 0 or above 1,
\* it fails before any payoff is evaluated and without a result, and whenever
\* the call goes on the p it uses is that unclamped p and lies in [0, 1].
C4_InvalidProbabilityFailsBeforeAnyPayoff ==
    LET d == RDiv(One, t_in.u)
        p == RDiv(RSub(t_in.growth, d), RSub(t_in.u, d))
        outside == RLess(p, Zero) \/ RLess(One, p)
    IN  /\ (t_pc # "start") => ((t_pc = "failed") <=> outside)
        /\ (t_pc = "failed") => (t_payoffs = 0 /\ t_result = NoResult)
        /\ (t_pc \in {"terminal", "induct", "done"}) =>
              (t_params.p = p /\ RLeq(Zero, p) /\ RLeq(p, One))
        /\ (t_result # NoResult) => (t_pc = "done" /\ ~outside)

\* A call that failed because p is above 1.
C4_Witness ==
    /\ t_pc = "failed"
    /\ RLess(One, t_params.p)

\* C7 (as claimed): an option whose style is neither EUROPEAN nor AMERICAN is
\* never given a price by BinomialTreeModel::price.
C7_UnsupportedStyleNeverPriced ==
    (t_in.option.style \notin {"EUROPEAN", "AMERICAN"}) => t_result = NoResult

(***************************************************************************)
(* Claims about the Longstaff-Schwartz engine.                             *)
(***************************************************************************)
NonZeroTimes(row) == {j \in DOMAIN row : row[j] # Zero}

\* C2: once the terminal payoffs are set, and after every backward step, each
\* row of cash_flows has at most one non-zero entry; the price returned is
\* the sum over all paths of that entry discounted by exp(-r*dt*t), divided
\* by num_paths.
C2_PathExercisedAtMostOnce ==
    /\ (l_pc \in {"backward", "done"}) =>
          \A i \in 0..(l_cfg.num_paths - 1) : Cardinality(NonZeroTimes(l_cash[i])) <= 1
    /\ (l_pc = "done") =>
          l_result = Returned(
              RDiv(SumSeq([k \in 1..l_cfg.num_paths |->
                      SumSeq([j \in 1..l_cfg.num_timesteps |->
                          RMul(l_cash[k - 1][j], RPow(l_in.df, j))])]),
                   RInt(l_cfg.num_paths)))

\* A path exercised before the terminal step whose terminal payoff, positive
\* when it was set, has been cleared.
C2_Witness ==
    /\ l_pc = "backward"
    /\ \E i \in 0..(l_cfg.num_paths - 1) :
           \E t \in 1..(l_cfg.num_timesteps - 1) :
               /\ l_cash[i][t] # Zero
               /\ RLess(Zero, payoff(l_in.option, RInt(l_paths[i][l_cfg.num_timesteps])))

\* C8: a backward step t at which fewer than polynomial_degree + 1 paths are
\* in the money solves no regression, changes no cash flow, raises no error
\* and hands over to step t - 1.
C8_TooFewInTheMoneySkipsStep ==
    [][(/\ l_pc = "backward"
        /\ l_t >= 1
        /\ Cardinality({i \in 0..(l_cfg.num_paths - 1) :
                           RLess(Zero, payoff(l_in.option, RInt(l_paths[i][l_t])))})
               < l_cfg.polynomial_degree + 1)
       => (/\ l_regs' = l_regs
           /\ l_cash' = l_cash
           /\ l_error' = ""
           /\ l_pc' = "backward"
           /\ l_t' = l_t - 1)]_vars

\* Step l_t + 1 has been passed with one path in the money and a fit that
\* needs two, after which the run stands at step l_t.
C8_Witness ==
    /\ l_pc = "backward"
    /\ l_error = ""
    /\ l_t + 1 <= l_cfg.num_timesteps - 1
    /\ l_cfg.polynomial_degree = 1
    /\ l_cfg.num_paths >= 2
    /\ Cardinality({i \in 0..(l_cfg.num_paths - 1) :
                       RLess(Zero, payoff(l_in.option, RInt(l_paths[i][l_t + 1])))}) = 1

\* C9 (as claimed): the price LSMCModel::price returns for an American put is
\* at least the intrinsic value at inception, max(strike - spot, 0).
C9_PutPriceAtLeastIntrinsic ==
    (l_pc = "done" /\ l_in.option.type = "PUT") =>
        RLeq(RMax(RSub(l_in.option.strike, RInt(l_in.spot)), Zero), l_result[1])

(***************************************************************************)
(* Claims about the style checks of the entry points.                      *)
(***************************************************************************)
\* C5: a call of price on LSMCModel with a style other than AMERICAN, or on
\* MonteCarloModel, HestonModel or BlackScholesModel with a style other than
\* EUROPEAN, ends in the unsupported-style error, simulates no path, and
\* leaves both generators' cursors and both configurations as they were.
C5_UnsupportedStyleRejectedBeforeAnyWork ==
    [][(/\ f_calls' = f_calls + 1
        /\ f_last'.entry = "price"
        /\ \/ (f_last'.engine = "LSMCModel" /\ f_last'.option.style # "AMERICAN")
           \/ (/\ f_last'.engine \in {"MonteCarloModel", "HestonModel", "BlackScholesModel"}
               /\ f_last'.option.style # "EUROPEAN"))
       => (/\ f_last'.outcome = StyleError
           /\ f_last'.simulated = 0
           /\ f_mc' = f_mc
           /\ f_lsmc' = f_lsmc)]_vars

\* A rejected MonteCarloModel::price call on an engine whose cursor an earlier
\* call had advanced.
C5_Witness ==
    /\ f_last.engine = "MonteCarloModel"
    /\ f_last.entry = "price"
    /\ f_last.outcome = StyleError
    /\ f_mc.rng > 0

\* C6 (as claimed): every entry point of BlackScholesModel and HestonModel
\* called with an AMERICAN option ends in the unsupported-style error.
C6_AmericanRejectedByEveryEntryPoint ==
    (/\ f_last.engine \in {"BlackScholesModel", "HestonModel"}
     /\ f_last.option.style = "AMERICAN")
        => f_last.outcome = StyleError

(***************************************************************************)
(* Claims about barrier pricing.                                           *)
(***************************************************************************)
KnockedAt(k) ==
    IF b_opt.barrier_type \in {"UP_AND_IN", "UP_AND_OUT"}
    THEN b_path[k].n * b_opt.barrier_level.d >= b_opt.barrier_level.n * b_path[k].d
    ELSE b_path[k].n * b_opt.barrier_level.d <= b_opt.barrier_level.n * b_path[k].d

KnockedAnywhere == \E k \in 1..Len(b_path) : KnockedAt(k)

VanillaAtTerminal ==
    LET ST == b_path[Len(b_path)]
        K == b_opt.strike
        diff == IF b_opt.type = "CALL" THEN RSub(ST, K) ELSE RSub(K, ST)
    IN  IF diff.n > 0 THEN diff ELSE Zero

\* C10: after each path of price_barrier, the path starts at the spot and
\* has num_timesteps + 1 points; barrier_hit says whether some point of it,
\* the first included, is at or beyond the level (>= for up, <= for down);
\* a knock-out path pays the rebate if hit and the vanilla payoff at the
\* terminal point otherwise, a knock-in path the reverse; and every
\* BarrierType is exactly one of knock-in and knock-out.
C10_BarrierPayoffRule ==
    /\ \A bt \in BarrierType : is_knock_in(bt) # is_knock_out(bt)
    /\ b_i >= 1 =>
          /\ Len(b_path) = b_cfg.num_timesteps + 1
          /\ b_path[1] = b_in.spot
          /\ b_hit = KnockedAnywhere
          /\ b_opt.barrier_type \in {"UP_AND_OUT", "DOWN_AND_OUT"} =>
                b_payoff = (IF KnockedAnywhere THEN b_opt.rebate ELSE VanillaAtTerminal)
          /\ b_opt.barrier_type \in {"UP_AND_IN", "DOWN_AND_IN"} =>
                b_payoff = (IF KnockedAnywhere THEN VanillaAtTerminal ELSE b_opt.rebate)

\* A knock-in path that touches the level only with its initial point, exactly
\* at the level, and pays a vanilla payoff different from the rebate.
C10_Witness ==
    /\ b_i >= 1
    /\ b_opt.barrier_type \in {"UP_AND_IN", "DOWN_AND_IN"}
    /\ b_path[1] = b_opt.barrier_level
    /\ \A k \in 2..Len(b_path) : ~KnockedAt(k)
    /\ b_payoff = VanillaAtTerminal
    /\ b_payoff # b_opt.rebate

(***************************************************************************)
(* Claims about a barrier option, its partner and the vanilla option.      *)
(***************************************************************************)
PairKnockIn == p_opt.barrier_type \in {"UP_AND_IN", "DOWN_AND_IN"}

\* C11: with zero rebate, on every path both instances see the same hit,
\* the knock-in option is paid the vanilla payoff exactly when the path is
\* hit and the knock-out option exactly when it is not, the other one being
\* paid the rebate; so the two sums add up to the vanilla sum and the two
\* prices to the discounted mean of the vanilla payoff.
C11_InPlusOutIsVanilla ==
    p_opt.rebate = Zero =>
        /\ p_i >= 1 =>
              /\ p_hit.a = p_hit.b
              /\ (PairKnockIn = p_hit.a) => (p_pay.a = p_pay.v /\ p_pay.b = p_opt.rebate)
              /\ (PairKnockIn # p_hit.a) => (p_pay.b = p_pay.v /\ p_pay.a = p_opt.rebate)
              /\ RAdd(p_sum.a, p_sum.b) = p_sum.v
        /\ p_pc = "done" => RAdd(p_result[1].a, p_result[1].b) = p_result[1].v

\* Both options contribute to a positive vanilla price.
C11_Witness ==
    /\ p_pc = "done"
    /\ p_opt.rebate = Zero
    /\ p_result[1].a.n > 0
    /\ p_result[1].b.n > 0
    /\ RAdd(p_result[1].a, p_result[1].b) = p_result[1].v

\* C12 (as claimed): for any rebate >= 0 the barrier price is at most the
\* vanilla price from the same paths.
C12_BarrierAtMostVanilla ==
    p_pc = "done" => RLeq(p_result[1].a, p_result[1].v)

\* C12 (amended): with zero rebate the barrier price is at most the vanilla
\* price from the same paths.
C12_BarrierAtMostVanillaZeroRebate ==
    (p_pc = "done" /\ p_opt.rebate = Zero) => RLeq(p_result[1].a, p_result[1].v)

\* A zero-rebate barrier option strictly cheaper than the vanilla, not worthless.
C12_Witness ==
    /\ p_pc = "done"
    /\ p_opt.rebate = Zero
    /\ p_result[1].a.n > 0
    /\ RLess(p_result[1].a, p_result[1].v)

(***************************************************************************)
(* Claims about the vanilla Monte Carlo average.                           *)
(***************************************************************************)
\* C13 (as claimed): when price returns, the divisor of the mean equals the
\* number of payoff terms that were added to the sum.
C13_DivisorIsNumberOfTerms ==
    m_pc = "done" => m_div = m_terms

MirrorShocks == [k \in 1..Len(m_shocks) |-> -m_shocks[k]]

\* C14 (as claimed): with use_antithetic, what an iteration adds for the
\* paired path is the payoff of the path built from the opposite shocks.
C14_AntitheticPathIsMirrored ==
    (m_cfg.use_antithetic /\ m_i >= 1) =>
        m_anti = Returned(payoff(m_opt,
                     simulate_path(m_in, MirrorShocks)[m_cfg.num_timesteps]))

C16_GreeksPriceTheSameOption ==
    /\ \A k \in 1..Len(g_priced) :
          /\ g_priced[k].kind = g_opt.kind
          /\ g_priced[k].style = g_opt.style
    /\ Len(g_priced) >= 5 =>
          /\ g_priced[5].expiry_days = g_opt.expiry_days - 1
          /\ g_priced[5].bumped = "none"

(***************************************************************************)
(* Claims about construction.                                              *)
(***************************************************************************)
Positive(x) == x \in {Num(1), PosInf}
Special(x) == x \in {NegInf, PosInf, NaN}

IvEndsInOneOfThreeWays ==
    /\ i_iter <= i_args.max_iterations
    /\ i_pc = "returned" =>
          /\ i_error = ""
          /\ i_result = Returned(i_at)
          /\ i_diff.n * i_args.tolerance.d < i_args.tolerance.n * i_diff.d
          /\ -(i_diff.n * i_args.tolerance.d) < i_args.tolerance.n * i_diff.d
    /\ i_pc = "thrown" =>
          /\ i_result = NoResult
          /\ \/ i_error = "runtime_error: Vega too small"
             \/ i_error = "runtime_error: did not converge" /\ i_iter = i_args.max_iterations

\* C18 (as claimed): for any option, the call ends by returning a sigma
\* priced within the tolerance, by the vega error, or by the
\* non-convergence error after max_iterations iterations.
C18_ImpliedVolatilityThreeOutcomes == IvEndsInOneOfThreeWays

\* C18 (amended): the same for a EUROPEAN option; for another style the
\* first iteration's price call ends the call with the unsupported-style
\* error, and nothing is returned.
C18_ImpliedVolatilityOutcomesEuropean ==
    /\ i_opt.style = "EUROPEAN" => IvEndsInOneOfThreeWays
    /\ i_result # NoResult => i_opt.style = "EUROPEAN"
    /\ (i_opt.style # "EUROPEAN" /\ i_pc = "thrown") =>
          \/ i_error = StyleError /\ i_iter = 0
          \/ i_error = "runtime_error: did not converge" /\ i_args.max_iterations = 0

\* A call that returned after a Newton step, one that had fallen back to
\* half the initial guess, with the sigma it last priced.
C18_Witness ==
    /\ i_pc = "returned"
    /\ i_iter >= 1
    /\ i_result = Returned(RMul(i_args.initial_guess, Rat(1, 2)))

(***************************************************************************)
(* Claims about Asian options.                                             *)
(***************************************************************************)
\* C19 (as claimed): in every iteration of price_asian the number of values
\* that enter calculate_average is option.num_observations(), and the payoff
\* is that of the average.
C19_AverageOverNumObservations ==
    a_i >= 1 =>
        /\ a_count = a_opt.num_observations
        /\ a_pay = AsianPayoff(a_opt, a_avg)

\* C20 (as claimed): on every simulated sequence of positive prices, the
\* payoff from the geometric average is at most the payoff from the
\* arithmetic average, for calls and puts, strike and type being the same.
C20_GeometricPayoffAtMostArithmetic ==
    a_i >= 1 =>
        DLeq(AsianPayoff(a_opt, calculate_average("GEOMETRIC", a_path)),
             AsianPayoff(a_opt, calculate_average("ARITHMETIC", a_path)))

(***************************************************************************)
(* Claims about the trinomial lattice.                                     *)
(***************************************************************************)
\* C21 (as claimed): for an AMERICAN option every computed node has the
\* signed offset j = i - N in [-s, s], its spot is S*exp(j*dx), and the
\* value stored is max(continuation, payoff at that spot).
C21_TrinomialExerciseAtNodeSpot ==
    (r_in.option.style = "AMERICAN" /\ r_node.step >= 0) =>
        LET j == r_node.i - r_in.num_steps
            spot == IF j >= 0 THEN RMul(r_in.spot, RPow(r_in.exp_dx, j))
                    ELSE RDiv(r_in.spot, RPow(r_in.exp_dx, -j))
        IN  /\ -r_node.step <= j /\ j <= r_node.step
            /\ r_node.offset = [wrapped |-> FALSE, value |-> j]
            /\ r_node.S_node = spot
            /\ r_values[r_node.i] = RMax(r_node.continuation, payoff(r_in.option, spot))

\* The lattice with one array per layer: the layer-s value of index i from
\* the three values of layer s + 1, with no early exercise.
RECURSIVE TriLayered(_, _, _)
TriLayered(in, s, i) ==
    IF s = in.num_steps
    THEN payoff(in.option, IF i >= in.num_steps
                           THEN RMul(in.spot, RPow(in.exp_dx, i - in.num_steps))
                           ELSE RDiv(in.spot, RPow(in.exp_dx, in.num_steps - i)))
    ELSE LET pr == TriProbabilities(in)
         IN  RMul(in.df, RAdd(RAdd(RMul(pr.pu, TriLayered(in, s + 1, i + 1)),
                                   RMul(pr.pm, TriLayered(in, s + 1, i))),
                              RMul(pr.pd, TriLayered(in, s + 1, i - 1))))

\* C24 (as claimed): the single array updated in ascending index order holds,
\* after each node of a step without early exercise, the value the recursion
\* with separate layers gives that node.
C24_TrinomialInPlaceEqualsLayered ==
    (r_node.step >= 0 /\ r_in.option.style # "AMERICAN") =>
        r_values[r_node.i] = TriLayered(r_in, r_node.step, r_node.i)

(***************************************************************************)
(* Claims about the Heston engine.                                         *)
(***************************************************************************)
\* Black-Scholes prices of the option for N(d1) > N(d2) in (0, 1):
\* S*exp(-qT)*N(d1) - K*exp(-rT)*N(d2), and the put by N(-d) = 1 - N(d).
BlackScholesPrices(in) ==
    {price_semi_analytical(in, <<n[1], n[2]>>) :
        n \in {<<Rat(3, 4), Rat(1, 4)>>, <<Rat(3, 4), Rat(1, 2)>>, <<Rat(1, 2), Rat(1, 4)>>}}

HestonTolerance == Rat(1, 4)

\* C22 (as claimed): with sigma = 0 and v0 = theta the price returned for a
\* European option is finite and within the tolerance of a Black-Scholes
\* price of that option.
C22_ZeroVolOfVolMatchesBlackScholes ==
    (h_pc = "done" /\ h_in.params.sigma = Zero /\ h_in.params.v0 = h_in.params.theta) =>
        /\ IsFiniteDouble(h_result[1])
        /\ \E bs \in BlackScholesPrices(h_in) :
              /\ RLeq(RSub(h_result[1], bs), HestonTolerance)
              /\ RLeq(RSub(bs, h_result[1]), HestonTolerance)

(***************************************************************************)
(* Claims about the lattice price against the closed form.                 *)
(***************************************************************************)
\* C23 (as claimed): for every valid market data and European option the
\* lattice call yields a price to compare with the closed form, so it
\* never ends in the exception of calculate_parameters.
C23_EuropeanLatticePriceExists ==
    t_in.option.style = "EUROPEAN" => t_pc # "failed"

(***************************************************************************)
(* Claims about one step of the Longstaff-Schwartz backward induction.     *)
(***************************************************************************)
\* The regression sample of the current step: the paths in the money at l_t.
C25_InTheMoney(i) == RLess(Zero, payoff(l_in.option, RInt(l_paths[i][l_t])))

\* The regression target of a path: its first non-zero cash flow strictly
\* after l_t, discounted by exp(-r*dt) per step, zero when there is none.
C25_Target(i) ==
    LET later == {j \in (l_t + 1)..l_cfg.num_timesteps : l_cash[i][j] # Zero}
    IN  IF later = {} THEN Zero
        ELSE LET j == CHOOSE a \in later : \A b \in later : a <= b
             IN  RMul(l_cash[i][j], RPow(l_in.df, j - l_t))

\* C25: a step with a regression fits the targets, read from the cash flows
\* as they were before the step, on exactly the in-the-money paths; such a
\* path is exercised (payoff at l_t, later entries zero) iff its payoff is
\* strictly greater than the fitted continuation; every other row, and
\* every row of a skipped step, is unchanged.
C25_RegressionStep ==
    [][(l_pc = "backward" /\ l_pc' = "backward" /\ l_t' = l_t - 1) =>
        LET sample == SelectSeq([k \in 1..l_cfg.num_paths |-> k - 1], C25_InTheMoney)
            x == [k \in 1..Len(sample) |-> l_paths[sample[k]][l_t]]
            y == [k \in 1..Len(sample) |-> C25_Target(sample[k])]
        IN  IF l_regs' = l_regs THEN l_cash' = l_cash
            ELSE LET fit == regression(x, y, l_cfg.polynomial_degree)
                 IN  \A i \in 0..(l_cfg.num_paths - 1) :
                        LET exercise == payoff(l_in.option, RInt(l_paths[i][l_t]))
                            continuation == evaluate_polynomial(
                                fit.coeffs, l_cfg.polynomial_degree, l_paths[i][l_t])
                        IN  IF C25_InTheMoney(i) /\ RLess(continuation, exercise)
                            THEN /\ l_cash'[i][l_t] = exercise
                                 /\ \A j \in 0..l_cfg.num_timesteps :
                                       /\ j > l_t => l_cash'[i][j] = Zero
                                       /\ j < l_t => l_cash'[i][j] = l_cash[i][j]
                            ELSE l_cash'[i] = l_cash[i]]_vars

\* A regression step has exercised one path early and kept another row
\* whose terminal cash flow was its regression target.
C25_Witness ==
    /\ l_pc = "backward"
    /\ l_regs >= 1
    /\ l_t + 1 < l_cfg.num_timesteps
    /\ \E i, k \in 0..(l_cfg.num_paths - 1) :
          /\ l_cash[i][l_t + 1] # Zero
          /\ l_cash[i][l_cfg.num_timesteps] = Zero
          /\ l_cash[k][l_t + 1] = Zero
          /\ l_cash[k][l_cfg.num_timesteps] # Zero

(***************************************************************************)
(* Claims about what a price or greeks call changes.                       *)
(***************************************************************************)
\* The prices an instance returns when it alone makes the evaluations
\* log[i..], one after the other, and the instance it ends as.
RECURSIVE C26_Alone(_, _, _, _)
C26_Alone(model, prices, log, i) ==
    IF i > Len(log) THEN [prices |-> prices, model |-> model]
    ELSE LET call == PriceCall(e_caches, model,
                               EvaluationMarket(e_market, log[i]), e_option)
         IN  C26_Alone(call.model, Append(prices, call.price), log, i + 1)

\* C26: every evaluation leaves the caller's market data and option and
\* both configurations as they were, changes only the called instance (its
\* generator), and the prices each instance has returned are those it
\* returns when it runs alone, whatever the other instance did in between.
C26_CallsTouchOnlyTheirGenerator ==
    [][/\ e_market' = e_market
       /\ e_option' = e_option
       /\ \A k \in Engines : e_models'[k].cfg = e_models[k].cfg
       /\ \E k \in Engines : \A other \in Engines \ {k} :
             /\ e_models'[other] = e_models[other]
             /\ e_prices'[other] = e_prices[other]
       /\ \A k \in Engines :
             LET alone == C26_Alone(Constructed(e_models[k].cfg), <<>>, e_log'[k], 1)
             IN  /\ e_prices'[k] = alone.prices
                 /\ e_models'[k] = alone.model]_vars

\* Both instances are inside a greeks call, each with evaluations made
\* and generator states advanced.
C26_Witness ==
    /\ \A k \in Engines : e_pos[k] \in 2..4 /\ e_models[k].rng.pos > 0
    /\ e_pos[1] # e_pos[2]
    /\ e_models[1].cfg # e_models[2].cfg

(***************************************************************************)
(* Claims about the Heston path simulation.                                *)
(***************************************************************************)
\* C27: after every step the variance used is max(v[i-1], 0) >= 0, the
\* value under the square root is that variance times dt and its root is a
\* number, the drift is kappa*(theta - max(v[i-1], 0))*dt, two normals were
\* drawn per step, Z1 is the first of them and drives the asset, and
\* Z2 = rho*Z1 + sqrt(1 - rho^2)*z2 drives the variance.
C27_VarianceFlooredAndOnePairPerStep ==
    (s_pc = "loop" /\ s_i >= 2) =>
        LET i == s_i - 1
            p == s_in.params
            stored == s_v[i - 1]
            floored == IF RLess(stored, Zero) THEN Zero ELSE stored
            root == SqrtOf(RMul(floored, s_in.dt))
        IN  /\ s_step.v_prev = floored
            /\ RLeq(Zero, s_step.v_prev)
            /\ s_step.root = root /\ IsFiniteDouble(s_step.root)
            /\ s_step.drift = RMul(RMul(p.kappa, RSub(p.theta, floored)), s_in.dt)
            /\ s_draws = 2 * i
            /\ s_step.Z1 = RInt(s_step.z1)
            /\ s_step.Z2 = RAdd(RMul(p.rho, s_step.Z1),
                                RMul(SqrtOf(RSub(One, RMul(p.rho, p.rho))),
                                     RInt(s_step.z2)))
            /\ s_v[i] = RAdd(RAdd(floored, s_step.drift),
                             RMul(RMul(p.sigma, root), s_step.Z2))
            /\ s_S[i] = RAdd(s_S[i - 1],
                             RAdd(RMul(RMul(s_in.growth, s_S[i - 1]), s_in.dt),
                                  RMul(RMul(s_S[i - 1], root), s_step.Z1)))

\* A step has been taken from a negative stored variance.
C27_Witness ==
    /\ s_pc = "loop" /\ s_i >= 3
    /\ RLess(s_v[s_i - 2], Zero)
    /\ s_step.v_prev = Zero
    /\ s_in.params.rho = Rat(3, 5)

(***************************************************************************)
(* Claims about the rows of the path matrix.                               *)
(***************************************************************************)
\* C28 (as claimed): once the paths are generated, every row of the matrix
\* starts at S0 and all its later entries are positive (each the previous
\* entry times a positive factor): no row keeps its initial zeros.
C28_EveryRowIsAPath ==
    l_pc \in {"terminal", "backward", "done"} =>
        \A i \in 0..(l_cfg.num_paths - 1) :
            /\ l_paths[i][0] = l_in.spot
            /\ \A j \in 1..l_cfg.num_timesteps : l_paths[i][j] > 0

(***************************************************************************)
(* Claims about failures of the default Greeks and of the regression.      *)
(***************************************************************************)
\* C29 (as claimed): for an engine using numerical_greeks and an option
\* its price accepts, greeks never ends in an exception.
C29_GreeksDoesNotFail ==
    g_pc # "failed" /\ g_error = ""

\* C30 (as claimed): price for an American option never ends in an error
\* raised by the regression of a time step; a sample that cannot support
\* the fit only skips the step.
C30_RegressionNeverFailsPrice ==
    l_in.option.style = "AMERICAN" => (l_pc # "failed" /\ l_error = "")

====
